---- MODULE Spec2Model ----
(***************************************************************************)
(* A model of the object-storage proxy (supabase/functions/               *)
(* storj-operations/index.ts), of the client transfer agent               *)
(* (src/lib/storj.ts) and of the page handlers that drive them            *)
(* (src/pages/Download.tsx, src/pages/Dashboard.tsx).                     *)
(*                                                                         *)
(* Strings that the code inspects (storage keys, binary strings, base64   *)
(* text) are sequences of code units; opaque strings are TLA+ strings.    *)
(***************************************************************************)
EXTENDS Integers, Sequences, FiniteSets, TLC

\* ------------------------------------------------------------------------
\* Bounds of the exploration (not program constants)
\* ------------------------------------------------------------------------

\* requests the proxy handles in one behaviour
MaxRequests == 2

\* entries the store returns in one listing page at most (S3's max-keys)
MaxKeys == 1000

\* storjService calls that can be in progress at the same time
MaxSlots == 2

\* completed downloads of one file, and rows of the `files` table
MaxDownloads == 2
MaxRows == 2

\* ------------------------------------------------------------------------
\* Program constants
\* ------------------------------------------------------------------------

\* index.ts:79  for (let i = 0; i < objectsToDelete.length; i += 1000)
BatchLimit == 1000

\* index.ts:14
DEFAULT_BUCKET == "shyfto"

\* storj.ts:12  const chunkSize = 65536
chunkSize == 65536

\* ------------------------------------------------------------------------
\* Values
\* ------------------------------------------------------------------------

Min(x, y) == IF x <= y THEN x ELSE y

\* JavaScript's undefined, for a string-valued marker and for a VersionId
Undefined == <<>>
NoVersionId == 0

KeyA == <<97>>
KeyAB == <<97, 98>>
KeyB == <<98>>

\* the keys of the model, in the store's (lexicographic) listing order
AllKeys == <<KeyA, KeyAB, KeyB>>
Keys == {AllKeys[n] : n \in DOMAIN AllKeys}

AltBucket == "alt"
Buckets == {DEFAULT_BUCKET, AltBucket}

HasPrefix(k, p) == Len(p) <= Len(k) /\ SubSeq(k, 1, Len(p)) = p

Range(s) == {s[n] : n \in DOMAIN s}

\* ------------------------------------------------------------------------
\* The object store (the S3-compatible collaborator of spec section 4.2)
\*
\* store[b][k] is what bucket b holds under key k:
\*   ids    the version ids of its versions and delete-markers, newest first
\*          (NoVersionId: an object of an unversioned bucket);
\*   marks  the ids among them that are delete-markers;
\*   data   body and content type of the versions put in this behaviour.
\* ------------------------------------------------------------------------

NoObject == [ids |-> <<>>, marks |-> {}, data |-> <<>>]

EmptyContent == [body |-> <<>>, contentType |-> "application/octet-stream"]

ContentOf(obj, id) ==
    LET hit == {n \in DOMAIN obj.data : obj.data[n].id = id}
    IN IF hit = {} THEN EmptyContent
       ELSE LET n == CHOOSE m \in hit : TRUE
            IN [body |-> obj.data[n].body, contentType |-> obj.data[n].contentType]

\* every version and delete-marker under a key with the prefix, in listing order
EntriesOf(st, b, k) ==
    [n \in 1..Len(st[b][k].ids) |->
        [Key |-> k, VersionId |-> st[b][k].ids[n],
         IsDeleteMarker |-> st[b][k].ids[n] \in st[b][k].marks]]

AllEntries(st, b, prefix) ==
    LET part(k) == IF HasPrefix(k, prefix) THEN EntriesOf(st, b, k) ELSE <<>>
    IN part(AllKeys[1]) \o part(AllKeys[2]) \o part(AllKeys[3])

\* ListObjectVersions: one page of at most `limit` entries after the markers
ListObjectVersions(st, b, prefix, keyMarker, versionIdMarker, limit) ==
    LET all == AllEntries(st, b, prefix)
        at == {n \in DOMAIN all :
                  all[n].Key = keyMarker /\ all[n].VersionId = versionIdMarker}
        pos == IF keyMarker = Undefined \/ at = {} THEN 0
               ELSE CHOOSE n \in at : TRUE
        last == Min(pos + limit, Len(all))
        page == SubSeq(all, pos + 1, last)
        truncated == last < Len(all)
    IN [Versions |-> SelectSeq(page, LAMBDA e : ~e.IsDeleteMarker),
        DeleteMarkers |-> SelectSeq(page, LAMBDA e : e.IsDeleteMarker),
        IsTruncated |-> truncated,
        NextKeyMarker |-> IF truncated THEN all[last].Key ELSE Undefined,
        NextVersionIdMarker |-> IF truncated THEN all[last].VersionId
                                ELSE NoVersionId]

\* DeleteObjects: the listed (Key, VersionId) pairs are removed for good
DeleteObjects(st, b, objects) ==
    [st EXCEPT ![b] = [k \in Keys |->
        LET gone == {objects[n].VersionId : n \in
                        {m \in DOMAIN objects : objects[m].Key = k}}
        IN [ids |-> SelectSeq(@[k].ids, LAMBDA id : id \notin gone),
            marks |-> @[k].marks \ gone,
            data |-> SelectSeq(@[k].data, LAMBDA d : d.id \notin gone)]]]

\* DeleteObject without a version id: a versioned bucket gets a delete-marker
\* on top (the data stays); an unversioned bucket loses the object
DeleteObject(st, isVersioned, b, k, newId) ==
    IF isVersioned
    THEN [st EXCEPT ![b][k].ids = <<newId>> \o @, ![b][k].marks = @ \cup {newId}]
    ELSE [st EXCEPT ![b][k] = NoObject]

\* PutObject: a new version on a versioned bucket, an overwrite otherwise
PutObject(st, isVersioned, b, k, body, contentType, newId) ==
    LET d(id) == [id |-> id, body |-> body, contentType |-> contentType]
    IN IF isVersioned
       THEN [st EXCEPT ![b][k].ids = <<newId>> \o @,
                       ![b][k].data = <<d(newId)>> \o @]
       ELSE [st EXCEPT ![b][k] = [ids |-> <<NoVersionId>>, marks |-> {},
                                  data |-> <<d(NoVersionId)>>]]

\* GetObject: the newest entry, unless there is none or it is a delete-marker
GetObject(st, b, k) ==
    LET obj == st[b][k]
    IN IF obj.ids = <<>> \/ obj.ids[1] \in obj.marks
       THEN [found |-> FALSE, body |-> <<>>, contentType |-> ""]
       ELSE [found |-> TRUE, body |-> ContentOf(obj, obj.ids[1]).body,
             contentType |-> ContentOf(obj, obj.ids[1]).contentType]

\* a GET of a presigned URL at time t: refused once the lifetime of the
\* signature has passed, the object of the URL's bucket and key otherwise
PresignedGet(st, url, t) ==
    IF t > url.issuedAt + url.expiresIn
    THEN [found |-> FALSE, status |-> 403, body |-> <<>>, contentType |-> ""]
    ELSE LET got == GetObject(st, url.bucket, url.key)
         IN [found |-> got.found, status |-> IF got.found THEN 200 ELSE 404,
             body |-> got.body, contentType |-> got.contentType]

\* ------------------------------------------------------------------------
\* Base64 (btoa / atob, and std/encoding/base64.ts which wraps them)
\* Text is a sequence of code units; whitespace-free input is assumed.
\* ------------------------------------------------------------------------

B64Char(v) ==
    IF v < 26 THEN 65 + v
    ELSE IF v < 52 THEN 97 + (v - 26)
    ELSE IF v < 62 THEN 48 + (v - 52)
    ELSE IF v = 62 THEN 43 ELSE 47

\* '='
IsPad(c) == c = 61

IsB64Char(c) ==
    \/ c \in 65..90
    \/ c \in 97..122
    \/ c \in 48..57
    \/ c = 43
    \/ c = 47

B64Value(c) ==
    IF c \in 65..90 THEN c - 65
    ELSE IF c \in 97..122 THEN c - 71
    ELSE IF c \in 48..57 THEN c + 4
    ELSE IF c = 43 THEN 62 ELSE 63

\* btoa(binaryString): every code unit is at most 255 here
Btoa(s) ==
    LET len == Len(s)
        at(n) == IF n <= len THEN s[n] ELSE 0
    IN [j \in 1..(4 * ((len + 2) \div 3)) |->
          LET g == (j - 1) \div 4
              p == (j - 1) % 4
              b0 == at(3 * g + 1)
              b1 == at(3 * g + 2)
              b2 == at(3 * g + 3)
          IN IF p = 0 THEN B64Char(b0 \div 4)
             ELSE IF p = 1 THEN B64Char((b0 % 4) * 16 + (b1 \div 16))
             ELSE IF p = 2 THEN (IF 3 * g + 2 > len THEN 61
                                 ELSE B64Char((b1 % 16) * 4 + (b2 \div 64)))
             ELSE (IF 3 * g + 3 > len THEN 61 ELSE B64Char(b2 % 64))]

\* atob's forgiving decode: up to two trailing '=' are dropped when the length
\* is a multiple of 4
StripPadding(t) ==
    LET len == Len(t)
    IN IF len > 0 /\ len % 4 = 0 /\ IsPad(t[len])
       THEN (IF IsPad(t[len - 1]) THEN SubSeq(t, 1, len - 2)
             ELSE SubSeq(t, 1, len - 1))
       ELSE t

AtobValid(t) ==
    LET d == StripPadding(t)
    IN Len(d) % 4 # 1 /\ \A n \in DOMAIN d : IsB64Char(d[n])

Atob(t) ==
    LET d == StripPadding(t)
        len == Len(d)
        at(n) == IF n <= len THEN B64Value(d[n]) ELSE 0
    IN [j \in 1..((len * 3) \div 4) |->
          LET g == (j - 1) \div 3
              p == (j - 1) % 3
              v0 == at(4 * g + 1)
              v1 == at(4 * g + 2)
              v2 == at(4 * g + 3)
              v3 == at(4 * g + 4)
          IN IF p = 0 THEN v0 * 4 + (v1 \div 16)
             ELSE IF p = 1 THEN (v1 % 16) * 16 + (v2 \div 4)
             ELSE (v2 % 4) * 64 + v3]

\* index.ts:3,109  base64Decode(fileData): atob, then one byte per code unit
base64Decode(fileData) == Atob(fileData)

\* index.ts:3,159  base64Encode(fullArray)
base64Encode(fullArray) == Btoa(fullArray)

\* ------------------------------------------------------------------------
\* JavaScript numbers: Math.floor((a / b) * k) in IEEE-754 double arithmetic,
\* for integers 0 <= a < 2^30, 0 < b <= 2^30, 0 < k <= 4096.  A double is its 53 significand bits,
\* most significant first, and the exponent of the last of them.  The division
\* and the multiplication each round to nearest, ties to even, so the result
\* can be one less than the exact floor(a * k / b): (57 / 100) * 100 is
\* 56.99999999999999.
\* ------------------------------------------------------------------------

\* the n low bits of x, most significant first
Bits(x, n) == [j \in 1..n |-> (x \div 2^(n - j)) % 2]

\* the number of bits of x < 2^30
BitLength(x) == CHOOSE n \in 0..30 : x < 2^n /\ (n = 0 \/ x >= 2^(n - 1))

\* the number written by at most 30 bits
RECURSIVE BitsToNat(_)
BitsToNat(bits) ==
    IF Len(bits) = 0 THEN 0
    ELSE IF Len(bits) = 1 THEN bits[1]
    ELSE LET h == Len(bits) \div 2
             low == SubSeq(bits, h + 1, Len(bits))
         IN BitsToNat(SubSeq(bits, 1, h)) * 2^Len(low) + BitsToNat(low)

\* the remainders after each of n steps of the long division by b that
\* starts with remainder r
RECURSIVE Remainders(_, _, _)
Remainders(r, b, n) ==
    IF n = 0 THEN <<>>
    ELSE IF n = 1 THEN <<(2 * r) % b>>
    ELSE LET h == n \div 2
             first == Remainders(r, b, h)
         IN first \o Remainders(first[h], b, n - h)

\* a 53-bit significand plus one
Increment(d) ==
    LET zeroAt == {n \in DOMAIN d.bits : d.bits[n] = 0}
    IN IF zeroAt = {}
       THEN [bits |-> <<1>> \o [n \in 1..(Len(d.bits) - 1) |-> 0], exp |-> d.exp + 1]
       ELSE LET p == CHOOSE n \in zeroAt : \A m \in zeroAt : m <= n
            IN [bits |-> [n \in DOMAIN d.bits |->
                            IF n < p THEN d.bits[n] ELSE IF n = p THEN 1 ELSE 0],
                exp |-> d.exp]

\* a / b for integers 0 < a < 2^30 and 0 < b <= 2^30, rounded to a double:
\* the bits of the quotient are those of its integer part and the 84 first
\* of its fraction; the significand is the 53 bits from the first 1 on
DoubleDiv(a, b) ==
    LET int == Bits(a \div b, BitLength(a \div b))
        rems == Remainders(a % b, b, 84)
        remBefore(j) == IF j = 1 THEN a % b ELSE rems[j - 1]
        frac == [j \in 1..84 |-> (2 * remBefore(j)) \div b]
        bits == int \o frac
        ones == {n \in DOMAIN bits : bits[n] = 1}
        first == CHOOSE n \in ones : \A m \in ones : n <= m
        last == first + 52
        p == last - Len(int)
        d == [bits |-> SubSeq(bits, first, last), exp |-> 0 - p]
        up == 2 * rems[p] > b \/ (2 * rems[p] = b /\ bits[last] = 1)
    IN IF up THEN Increment(d) ELSE d

\* a double times the integer k <= 4096, rounded to a double: the significand
\* is multiplied in three limbs of 17, 18 and 18 bits
DoubleMulInt(d, k) ==
    LET m2 == BitsToNat(SubSeq(d.bits, 1, 17))
        m1 == BitsToNat(SubSeq(d.bits, 18, 35))
        m0 == BitsToNat(SubSeq(d.bits, 36, 53))
        c0 == m0 * k
        c1 == m1 * k + (c0 \div 2^18)
        c2 == m2 * k + (c1 \div 2^18)
        product == Bits(c2, BitLength(c2)) \o Bits(c1 % 2^18, 18) \o Bits(c0 % 2^18, 18)
        drop == Len(product) - 53
        kept == [bits |-> SubSeq(product, 1, 53), exp |-> d.exp + drop]
        guard == drop >= 1 /\ product[54] = 1
        sticky == \E n \in 55..Len(product) : product[n] = 1
        up == guard /\ (sticky \/ product[53] = 1)
    IN IF up THEN Increment(kept) ELSE kept

\* Math.floor of a double below 2^30
DoubleFloor(d) ==
    IF 53 + d.exp <= 0 THEN 0 ELSE BitsToNat(SubSeq(d.bits, 1, 53 + d.exp))

\* Math.floor((a / b) * k)
FloorRatioTimes(a, b, k) ==
    IF a = 0 THEN 0 ELSE DoubleFloor(DoubleMulInt(DoubleDiv(a, b), k))

\* ------------------------------------------------------------------------
\* The proxy: serve() and deleteAllVersions() of storj-operations/index.ts
\* One request is handled at a time; every await of a store call is a step.
\* ------------------------------------------------------------------------

VARIABLES
    store,            \* the object store
    versioned,        \* versioned[b]: bucket b keeps versions
    nextVid,          \* the next version id the store hands out
    pageSize,         \* entries per listing page the store returns
    env,              \* Deno.env: STORJ_ACCESS_KEY_ID, STORJ_SECRET_ACCESS_KEY
    nreq,             \* requests received so far
    pc,               \* where the request being handled stands
    request,          \* the request being handled
    bucketName,       \* index.ts:101
    response,         \* the Response returned
    key,              \* deleteAllVersions' key parameter
    fileIdx,          \* position of `path` in `files` (delete-multiple)
    isTruncated,      \* index.ts:44
    KeyMarker,        \* index.ts:45
    VersionIdMarker,  \* index.ts:46
    objectsToDelete,  \* index.ts:47
    batchI,           \* index.ts:79, the loop variable i
    buffer,           \* index.ts:109
    stream,           \* index.ts:135-149: what response.Body still holds, the
                      \* chunks read from it, and response.ContentType
    calls,            \* the store calls of the request, in order
    batches           \* the chunks sent for `key` by DeleteObjectsCommand

\* the holder of a presigned URL, and the clock of the store
VARIABLES
    now,              \* seconds since the start of the behaviour
    held,             \* the presigned URL that was passed on, or NoUrl
    fetched           \* the latest GET of `held` and its outcome

holderVars == <<now, held, fetched>>

\* the callers that delete rows of the `files` table
VARIABLES
    lpc,              \* the await at which loadFile or loadBatch stands
    loadKey,          \* the fileId or batchId the download page has loaded, or 0
    notFound,         \* Download.tsx: the `notFound` state of the page
    dpc,              \* the await at which each delete of the dashboard stands
    doomed,           \* of each of them: the slot of its store call and the
                      \* files it was called for
    job               \* cleanup-expired-files: the locals of one run

rowsVars == <<lpc, loadKey, notFound, dpc, doomed, job>>

\* a second invocation of the proxy, and the store as it was at the start
VARIABLES
    parked,           \* the locals of the invocation that is not running now
    store0            \* the store at the start of the behaviour

pairVars == <<parked, store0>>

\* a call of uploadFile seen by its encode loop alone
VARIABLES
    enc               \* storj.ts:7-31: the length of the file and what was reported

\* a second recipient, who has the download page open in another browser
VARIABLES
    away              \* the state of the page that is not the one acting now

recipientVars == <<away>>

\* the download page of a batch
VARIABLES
    pageFiles,        \* Download.tsx:33, the `files` state of the page
    bi,               \* Download.tsx:229, the loop variable i; then the file whose
                      \* count is updated (Download.tsx:254)
    zip,              \* Download.tsx:227, the entries of the archive
    unhandled         \* what a handler of the page threw and nothing caught

batchVars == <<pageFiles, bi, zip, unhandled>>

\* clicks on the download button while the handler of an earlier click runs
VARIABLES
    clickFile,        \* Download.tsx:143-203, the `file` of the render in which
                      \* the button was clicked: what handleDownload closed over
    earlier           \* the handlers of earlier clicks that have reset
                      \* `downloading` (Download.tsx:183-186) and still await
                      \* the count update or loadFile (Download.tsx:188-203)

clickVars == <<clickFile, earlier>>

VARIABLES
    storage           \* part_001:160-162, the bucket 'files' of supabase.storage:
                      \* the objects by path

olderVars == <<storage>>

lateVars == <<enc, recipientVars, batchVars, clickVars, olderVars>>
asideVars == <<holderVars, rowsVars, pairVars, lateVars>>

storeVars == <<store, versioned, nextVid, pageSize, env, asideVars>>
deleteVars == <<key, fileIdx, isTruncated, KeyMarker, VersionIdMarker,
                objectsToDelete, batchI, batches>>
proxyVars == <<nreq, pc, request, bucketName, response, buffer, stream, calls>>
proxyAll == <<storeVars, deleteVars, proxyVars>>

VARIABLES
    \* storjService (src/lib/storj.ts): the calls in progress, by slot
    cpc,              \* the await at which the call stands
    xfer,             \* the function called and its arguments
    progressLog,      \* the values passed to onProgress, in order
    result,           \* what the call's promise settled to
    reader,           \* locals of the streamed downloadFile (storj.ts:63-100)
    outbox,           \* the body given to supabase.functions.invoke
    inbox,            \* the { data, error } that invoke resolved to
    net,              \* where the invoke stands
    serving,          \* the slot whose request the proxy is handling, or 0
    \* the `files` table
    rows,
    \* the latest toast shown
    toast,
    \* Download.tsx
    hpc,              \* the await at which handleDownload stands
    file,             \* Download.tsx:32
    requiresPassword, \* Download.tsx:38
    password,         \* Download.tsx:39
    passwordError,    \* Download.tsx:40
    downloading,      \* Download.tsx:35
    downloadProgress, \* Download.tsx:36
    clicked,          \* the href of the anchor clicked by the current action
    issued,           \* the proxy operations the current action has invoked
    \* Dashboard.tsx
    uhpc,             \* the await at which handleFileUpload stands
    selectedFiles,    \* Dashboard.tsx:189
    uploadPromises,   \* Dashboard.tsx:225, where each of them stands
    uploading,        \* the `uploading` state of the page
    listed,           \* Dashboard.tsx:41, the `files` state of the page: the
                      \* rows as the last loadFiles read them
    uploadProgress    \* the `uploadProgress` state of the page

agentVars == <<cpc, xfer, progressLog, result, reader, outbox, inbox, net, serving>>
downloadRest == <<hpc, file, requiresPassword, password, passwordError, downloading,
                  clicked, issued>>
uploadRest == <<uhpc, selectedFiles, uploadPromises, uploading, listed>>
downloadPage == <<downloadRest, downloadProgress>>
uploadPage == <<uploadRest, uploadProgress>>
pageVars == <<rows, toast, downloadPage, uploadPage>>
clientVars == <<agentVars, pageVars>>

Operations == {"upload", "download", "delete", "delete-multiple", "get-download-url"}

\* the body of a request as serve() destructures it (index.ts:100); an absent
\* bucket is "", `size` is sent by the client and never read
Req(operation, filePath, files, fileData, contentType, bucket) ==
    [method |-> "POST", json |-> TRUE, operation |-> operation, filePath |-> filePath,
     files |-> files, fileData |-> fileData, contentType |-> contentType,
     bucket |-> bucket]

NoResponse == [status |-> 0, body |-> [none |-> TRUE]]

\* index.ts:120,176,191
SuccessResponse == [status |-> 200, body |-> [success |-> TRUE]]

\* mutant: the catch answers without a status
ErrorResponseNoStatus(message) == [status |-> 200, body |-> [error |-> message]]

\* index.ts:225-234  the catch of serve()
ErrorResponse(message) == [status |-> 500, body |-> [error |-> message]]

\* mutant: the default case forgets the status
InvalidOperationNoStatus == [status |-> 200, body |-> [error |-> "Invalid operation"]]

\* index.ts:216-223
InvalidOperationResponse == [status |-> 400, body |-> [error |-> "Invalid operation"]]

\* index.ts:94-96
PreflightResponse == [status |-> 200, body |-> [null |-> TRUE]]

\* mutant: only the access key id is looked at
CredentialsConfiguredIdOnly(e) == e.STORJ_ACCESS_KEY_ID # ""

\* index.ts:16-28  createStorjClient throws without the two secrets
CredentialsConfigured(e) == e.STORJ_ACCESS_KEY_ID # "" /\ e.STORJ_SECRET_ACCESS_KEY # ""

\* mutant: the message tells which access key id was found
errorMsgNamingKeyId(e) ==
    IF e.STORJ_ACCESS_KEY_ID # ""
    THEN e.STORJ_ACCESS_KEY_ID
    ELSE "Storj credentials not configured"

\* index.ts:25  errorMsg names the two variables, not their values
errorMsg(e) == "Storj credentials not configured"

\* mutant: the override of the caller is ignored
ResolveBucketDefaultOnly(bucket) == DEFAULT_BUCKET

\* index.ts:101  const bucketName = bucket || DEFAULT_BUCKET
ResolveBucket(bucket) == IF bucket = "" THEN DEFAULT_BUCKET ELSE bucket

FilterForKeyByPrefix(entries, k) ==
    SelectSeq(entries, LAMBDA v : HasPrefix(v.Key, k) /\ v.VersionId # NoVersionId)

\* index.ts:57-65  what one listing page adds to objectsToDelete
FilterForKey(entries, k) ==
    SelectSeq(entries, LAMBDA v : v.Key = k /\ v.VersionId # NoVersionId)

ToDelete(entries, k) ==
    [n \in 1..Len(entries) |-> [Key |-> k, VersionId |-> entries[n].VersionId]]

\* mutant: every entry of the page is pushed, under its own key
AccumulateUnfiltered(acc, list, k) ==
    acc \o [n \in 1..Len(list.Versions) |->
              [Key |-> list.Versions[n].Key, VersionId |-> list.Versions[n].VersionId]]
        \o [n \in 1..Len(list.DeleteMarkers) |->
              [Key |-> list.DeleteMarkers[n].Key,
               VersionId |-> list.DeleteMarkers[n].VersionId]]

\* mutant: the delete-markers of a page are not pushed
AccumulateVersionsOnly(acc, list, k) ==
    acc \o ToDelete(FilterForKey(list.Versions, k), k)

Accumulate(acc, list, k) ==
    acc \o ToDelete(FilterForKey(list.Versions, k), k)
        \o ToDelete(FilterForKey(list.DeleteMarkers, k), k)

\* mutant: the slice takes one element too many
ChunkOneTooMany(objects, from) ==
    SubSeq(objects, from + 1, Min(from + BatchLimit + 1, Len(objects)))

\* index.ts:80  objectsToDelete.slice(i, i + 1000)
Chunk(objects, from) == SubSeq(objects, from + 1, Min(from + BatchLimit, Len(objects)))

Call(op, k, size, ok) ==
    [op |-> op, bucket |-> bucketName, key |-> k, idx |-> fileIdx, size |-> size, ok |-> ok]

\* the response is sent; the locals of the request are dropped
Respond(r) ==
    /\ response' = r
    /\ pc' = "done"

\* mutant: objectsToDelete outlives the deletion that filled it
StartDeleteKeepingPairs(k, idx) ==
    /\ key' = k
    /\ fileIdx' = idx
    /\ isTruncated' = TRUE
    /\ KeyMarker' = Undefined
    /\ VersionIdMarker' = NoVersionId
    /\ UNCHANGED objectsToDelete
    /\ batchI' = 0
    /\ batches' = <<>>
    /\ pc' = "list"

\* index.ts:44-47  entry of deleteAllVersions(client, bucket, k)
StartDelete(k, idx) ==
    /\ key' = k
    /\ fileIdx' = idx
    /\ isTruncated' = TRUE
    /\ KeyMarker' = Undefined
    /\ VersionIdMarker' = NoVersionId
    /\ objectsToDelete' = <<>>
    /\ batchI' = 0
    /\ batches' = <<>>
    /\ pc' = "list"

\* no GetObject has answered; `error` is what the reading of the Body threw
NoStream == [Body |-> <<>>, chunks |-> <<>>, ContentType |-> "", error |-> ""]

\* index.ts:92-224  serve(), up to its first store call
Serve(r) ==
    /\ pc \in {"idle", "done"}
    /\ nreq < MaxRequests
    /\ nreq' = nreq + 1
    /\ request' = r
    /\ calls' = <<>>
    /\ stream' = NoStream
    /\ bucketName' = ResolveBucket(r.bucket)
    /\ UNCHANGED storeVars
    /\ IF r.method = "OPTIONS"
       THEN Respond(PreflightResponse) /\ UNCHANGED <<deleteVars, buffer>>
       ELSE IF ~r.json
       THEN Respond(ErrorResponse("Unexpected token")) /\ UNCHANGED <<deleteVars, buffer>>
       ELSE IF ~CredentialsConfigured(env)
       THEN Respond(ErrorResponse(errorMsg(env)))
            /\ UNCHANGED <<deleteVars, buffer>>
       ELSE IF r.operation = "upload"
       THEN IF AtobValid(r.fileData)
            THEN /\ buffer' = base64Decode(r.fileData)
                 /\ pc' = "put"
                 /\ response' = NoResponse
                 /\ UNCHANGED deleteVars
            ELSE Respond(ErrorResponse("Failed to decode base64"))
                 /\ UNCHANGED <<deleteVars, buffer>>
       ELSE IF r.operation = "download"
       THEN pc' = "get" /\ response' = NoResponse /\ UNCHANGED <<deleteVars, buffer>>
       ELSE IF r.operation = "delete"
       THEN StartDelete(r.filePath, 0) /\ response' = NoResponse /\ UNCHANGED buffer
       ELSE IF r.operation = "delete-multiple"
       THEN IF r.files = <<>>
            THEN Respond(SuccessResponse) /\ UNCHANGED <<deleteVars, buffer>>
            ELSE StartDelete(r.files[1], 1) /\ response' = NoResponse /\ UNCHANGED buffer
       ELSE IF r.operation = "get-download-url"
       THEN pc' = "presign" /\ response' = NoResponse /\ UNCHANGED <<deleteVars, buffer>>
       ELSE Respond(InvalidOperationResponse) /\ UNCHANGED <<deleteVars, buffer>>

\* mutant: the error of a store call is swallowed and success is reported
ThrowSwallowed(call) ==
    /\ calls' = Append(calls, call)
    /\ Respond(SuccessResponse)

\* mutant: the error of a store call is logged and the handler carries on
ThrowContinue(call) ==
    /\ calls' = Append(calls, call)
    /\ pc' = "returned"
    /\ UNCHANGED response

\* index.ts:86-89 and 225-234  a store call threw: rethrown, caught by serve()
Throw(call) ==
    /\ calls' = Append(calls, call)
    /\ Respond(ErrorResponse("StoreError"))

\* index.ts:175-182 and 187-197  the await of deleteAllVersions resumes: the
\* next path of `files`, or the success response
DeleteReturned ==
    /\ UNCHANGED clientVars
    /\ pc = "returned"
    /\ UNCHANGED <<storeVars, nreq, request, bucketName, buffer, stream, calls>>
    /\ IF request.operation = "delete-multiple" /\ fileIdx < Len(request.files)
       THEN StartDelete(request.files[fileIdx + 1], fileIdx + 1) /\ UNCHANGED response
       ELSE Respond(SuccessResponse) /\ UNCHANGED deleteVars

\* index.ts:49-70  one turn of the listing loop
\* index.ts:57-70  the body of the while loop after the page `list` arrived;
\* the call is recorded unless it repeats the last record
ListPageGot(list, again) ==
    LET call == Call("ListObjectVersions", key,
                     Len(list.Versions) + Len(list.DeleteMarkers), TRUE)
    IN /\ calls' = IF again /\ calls # <<>> /\ calls[Len(calls)] = call
                   THEN calls ELSE Append(calls, call)
       /\ objectsToDelete' = Accumulate(objectsToDelete, list, key)
       /\ isTruncated' = list.IsTruncated
       /\ KeyMarker' = list.NextKeyMarker
       /\ VersionIdMarker' = list.NextVersionIdMarker
       /\ pc' = IF list.IsTruncated THEN "list"
                ELSE IF Len(objectsToDelete') = 0 THEN "deleteObject"
                ELSE "deleteObjects"
       /\ UNCHANGED <<key, fileIdx, batchI, batches, response>>

ListPage ==
    /\ UNCHANGED clientVars
    /\ pc = "list"
    /\ UNCHANGED <<storeVars, nreq, request, bucketName, buffer, stream>>
    /\ \E ok \in BOOLEAN :
        IF ~ok
        THEN Throw(Call("ListObjectVersions", key, 0, FALSE)) /\ UNCHANGED deleteVars
        ELSE ListPageGot(ListObjectVersions(store, bucketName, key, KeyMarker,
                                            VersionIdMarker, pageSize), FALSE)

\* index.ts:72-76  nothing accumulated: one delete without a version id
DeleteUnversioned ==
    /\ UNCHANGED clientVars
    /\ pc = "deleteObject"
    /\ UNCHANGED <<versioned, pageSize, env, asideVars, nreq, request, bucketName, buffer, stream>>
    /\ \E ok \in BOOLEAN :
        IF ~ok
        THEN Throw(Call("DeleteObject", key, 0, FALSE))
             /\ UNCHANGED <<deleteVars, store, nextVid>>
        ELSE /\ store' = DeleteObject(store, versioned[bucketName], bucketName, key, nextVid)
             /\ nextVid' = nextVid + 1
             /\ calls' = Append(calls, Call("DeleteObject", key, 0, TRUE))
             /\ pc' = "returned"
             /\ UNCHANGED <<deleteVars, response>>

\* index.ts:79-85  one turn of the batch loop
DeleteBatch ==
    /\ UNCHANGED clientVars
    /\ pc = "deleteObjects"
    /\ UNCHANGED <<versioned, nextVid, pageSize, env, asideVars, nreq, request, bucketName, buffer, stream>>
    /\ LET chunk == Chunk(objectsToDelete, batchI)
       IN \E ok \in BOOLEAN :
           IF ~ok
           THEN /\ Throw(Call("DeleteObjects", key, Len(chunk), FALSE))
                /\ batches' = Append(batches, chunk)
                /\ UNCHANGED <<key, fileIdx, isTruncated, KeyMarker, VersionIdMarker>>
                /\ UNCHANGED <<objectsToDelete, batchI, store>>
           ELSE /\ store' = DeleteObjects(store, bucketName, chunk)
                /\ calls' = Append(calls, Call("DeleteObjects", key, Len(chunk), TRUE))
                /\ batches' = Append(batches, chunk)
                /\ batchI' = batchI + BatchLimit
                /\ pc' = IF batchI' < Len(objectsToDelete) THEN "deleteObjects"
                         ELSE "returned"
                /\ UNCHANGED <<key, fileIdx, isTruncated, KeyMarker>>
                /\ UNCHANGED <<VersionIdMarker, objectsToDelete, response>>

RECURSIVE Concat(_)
Concat(chunks) ==
    IF chunks = <<>> THEN <<>> ELSE Head(chunks) \o Concat(Tail(chunks))

\* the places where a stream of n bytes may be cut
Cuts(n) == {0, 1, n \div 2, n} \cap 0..n

\* the ways the store may cut a body into the chunks of its stream
Chunkings(body) ==
    {<<SubSeq(body, 1, cut), SubSeq(body, cut + 1, Len(body))>> : cut \in Cuts(Len(body))}
        \cup {<<body>>}

\* index.ts:111-126  the PutObjectCommand of `upload`
PutStep ==
    /\ UNCHANGED clientVars
    /\ pc = "put"
    /\ UNCHANGED <<versioned, pageSize, env, asideVars, nreq, request, bucketName, buffer, stream, deleteVars>>
    /\ \E ok \in BOOLEAN :
        IF ~ok
        THEN Throw(Call("PutObject", request.filePath, Len(buffer), FALSE))
             /\ UNCHANGED <<store, nextVid>>
        ELSE /\ store' = PutObject(store, versioned[bucketName], bucketName,
                                   request.filePath, buffer, request.contentType, nextVid)
             /\ nextVid' = nextVid + 1
             /\ calls' = Append(calls, Call("PutObject", request.filePath, Len(buffer), TRUE))
             /\ Respond(SuccessResponse)

\* index.ts:130-143  the GetObjectCommand of `download`: it throws, or its
\* output has no Body, or the reader of the Body is taken
GetStep ==
    /\ UNCHANGED clientVars
    /\ pc = "get"
    /\ UNCHANGED <<storeVars, nreq, request, bucketName, buffer, deleteVars>>
    /\ LET got == GetObject(store, bucketName, request.filePath)
       IN \E ok \in BOOLEAN :
           IF ~ok \/ ~got.found
           THEN Throw(Call("GetObject", request.filePath, 0, FALSE)) /\ UNCHANGED stream
           ELSE \/ /\ calls' = Append(calls, Call("GetObject", request.filePath, 0, TRUE))
                   /\ stream' = [NoStream EXCEPT !.error = "No file content received"]
                   /\ Respond(ErrorResponse(stream'.error))
                \/ /\ calls' = Append(calls, Call("GetObject", request.filePath,
                                                  Len(got.body), TRUE))
                   /\ \E chunks \in Chunkings(got.body) :
                         stream' = [NoStream EXCEPT !.Body = chunks,
                                                    !.ContentType = got.contentType]
                   /\ pc' = "read"
                   /\ UNCHANGED response

\* index.ts:145-171  one reader.read(): it rejects, or a chunk is pushed, or
\* the stream is done: the chunks are merged and encoded and the answer is sent
ReadStep ==
    /\ UNCHANGED clientVars
    /\ pc = "read"
    /\ UNCHANGED <<storeVars, nreq, request, bucketName, buffer, deleteVars, calls>>
    /\ \/ /\ stream' = [stream EXCEPT !.error = "StoreError"]
          /\ Respond(ErrorResponse(stream'.error))
       \/ /\ stream.Body # <<>>
          /\ stream' = [stream EXCEPT !.Body = Tail(@),
                                      !.chunks = Append(@, Head(stream.Body))]
          /\ UNCHANGED <<pc, response>>
       \/ /\ stream.Body = <<>>
          /\ LET fullArray == Concat(stream.chunks)
             IN Respond([status |-> 200,
                         body |-> [success |-> TRUE,
                                   data |-> base64Encode(fullArray),
                                   contentType |-> stream.ContentType]])
          /\ UNCHANGED stream

\* ------------------------------------------------------------------------
\* The older handler given to serve(): index.ts:274-409
\* It knows one bucket, deletes with a single DeleteObjectCommand for every
\* path, and has no get-download-url.
\* ------------------------------------------------------------------------

\* index.ts:247
STORJ_BUCKET == DEFAULT_BUCKET

\* index.ts:340  btoa(String.fromCharCode(...fullArray)): every byte becomes
\* the code unit of its value (the objects here are far shorter than the
\* longest argument list the engine takes)
OlderEncode(fullArray) == Btoa(fullArray)

\* index.ts:274-290, 355, 372 and 391-398  the older handler, up to its first store
\* call; the field `bucket` of the body is not read
ServeOlder(r) ==
    /\ pc \in {"idle", "done"}
    /\ nreq < MaxRequests
    /\ nreq' = nreq + 1
    /\ request' = r
    /\ calls' = <<>>
    /\ stream' = NoStream
    /\ bucketName' = STORJ_BUCKET
    /\ fileIdx' = 0
    /\ UNCHANGED <<storeVars, key, isTruncated, KeyMarker, VersionIdMarker>>
    /\ UNCHANGED <<objectsToDelete, batchI, batches>>
    /\ IF r.method = "OPTIONS"
       THEN Respond(PreflightResponse) /\ UNCHANGED buffer
       ELSE IF ~r.json
       THEN Respond(ErrorResponse("Unexpected token")) /\ UNCHANGED buffer
       ELSE IF ~CredentialsConfigured(env)
       THEN Respond(ErrorResponse(errorMsg(env))) /\ UNCHANGED buffer
       ELSE IF r.operation = "upload"
       THEN IF AtobValid(r.fileData)
            THEN /\ buffer' = Atob(r.fileData)
                 /\ pc' = "olderPut"
                 /\ response' = NoResponse
            ELSE Respond(ErrorResponse("Failed to decode base64")) /\ UNCHANGED buffer
       ELSE IF r.operation = "download"
       THEN pc' = "olderGet" /\ response' = NoResponse /\ UNCHANGED buffer
       ELSE IF r.operation = "delete"
       THEN pc' = "olderDelete" /\ response' = NoResponse /\ UNCHANGED buffer
       ELSE IF r.operation = "delete-multiple"
       THEN IF r.files = <<>>
            THEN Respond(SuccessResponse) /\ UNCHANGED buffer
            ELSE pc' = "olderDelete" /\ response' = NoResponse /\ UNCHANGED buffer
       ELSE Respond(InvalidOperationResponse) /\ UNCHANGED buffer

\* index.ts:292-307  the PutObjectCommand of the older `upload`
OlderPutStep ==
    /\ UNCHANGED clientVars
    /\ pc = "olderPut"
    /\ UNCHANGED <<versioned, pageSize, env, asideVars, nreq, request, bucketName>>
    /\ UNCHANGED <<buffer, stream, deleteVars>>
    /\ \E ok \in BOOLEAN :
        IF ~ok
        THEN Throw(Call("PutObject", request.filePath, Len(buffer), FALSE))
             /\ UNCHANGED <<store, nextVid>>
        ELSE /\ store' = PutObject(store, versioned[STORJ_BUCKET], STORJ_BUCKET,
                                   request.filePath, buffer, request.contentType, nextVid)
             /\ nextVid' = nextVid + 1
             /\ calls' = Append(calls, Call("PutObject", request.filePath, Len(buffer), TRUE))
             /\ Respond(SuccessResponse)

\* index.ts:310-324  the GetObjectCommand of the older `download`
OlderGetStep ==
    /\ UNCHANGED clientVars
    /\ pc = "olderGet"
    /\ UNCHANGED <<storeVars, nreq, request, bucketName, buffer, deleteVars>>
    /\ LET got == GetObject(store, STORJ_BUCKET, request.filePath)
       IN \E ok \in BOOLEAN :
           IF ~ok \/ ~got.found
           THEN Throw(Call("GetObject", request.filePath, 0, FALSE)) /\ UNCHANGED stream
           ELSE \/ /\ calls' = Append(calls, Call("GetObject", request.filePath, 0, TRUE))
                   /\ stream' = [NoStream EXCEPT !.error = "No file content received"]
                   /\ Respond(ErrorResponse(stream'.error))
                \/ /\ calls' = Append(calls, Call("GetObject", request.filePath,
                                                  Len(got.body), TRUE))
                   /\ \E chunks \in Chunkings(got.body) :
                         stream' = [NoStream EXCEPT !.Body = chunks,
                                                    !.ContentType = got.contentType]
                   /\ pc' = "olderRead"
                   /\ UNCHANGED response

\* index.ts:326-352  one reader.read() of the older `download`, and its answer
OlderReadStep ==
    /\ UNCHANGED clientVars
    /\ pc = "olderRead"
    /\ UNCHANGED <<storeVars, nreq, request, bucketName, buffer, deleteVars, calls>>
    /\ \/ /\ stream' = [stream EXCEPT !.error = "StoreError"]
          /\ Respond(ErrorResponse(stream'.error))
       \/ /\ stream.Body # <<>>
          /\ stream' = [stream EXCEPT !.Body = Tail(@),
                                      !.chunks = Append(@, Head(stream.Body))]
          /\ UNCHANGED <<pc, response>>
       \/ /\ stream.Body = <<>>
          /\ LET fullArray == Concat(stream.chunks)
                 base64 == OlderEncode(fullArray)
             IN Respond([status |-> 200,
                         body |-> [success |-> TRUE, data |-> base64,
                                   contentType |-> stream.ContentType]])
          /\ UNCHANGED stream

\* index.ts:355-369 and 372-388  one DeleteObjectCommand of the older `delete`
\* or of the loop of the older `delete-multiple`, and the answer after the
\* last one
OlderDeleteStep ==
    /\ UNCHANGED clientVars
    /\ pc = "olderDelete"
    /\ UNCHANGED <<versioned, pageSize, env, asideVars, nreq, request, bucketName>>
    /\ UNCHANGED <<buffer, stream, key, isTruncated, KeyMarker, VersionIdMarker>>
    /\ UNCHANGED <<objectsToDelete, batchI, batches>>
    /\ LET many == request.operation = "delete-multiple"
           idx == IF many THEN fileIdx + 1 ELSE 0
           path == IF many THEN request.files[idx] ELSE request.filePath
           call(ok) == [op |-> "DeleteObject", bucket |-> STORJ_BUCKET, key |-> path,
                        idx |-> idx, size |-> 0, ok |-> ok]
       IN \E ok \in BOOLEAN :
           IF ~ok
           THEN Throw(call(FALSE)) /\ UNCHANGED <<store, nextVid, fileIdx>>
           ELSE /\ store' = DeleteObject(store, versioned[STORJ_BUCKET], STORJ_BUCKET,
                                         path, nextVid)
                /\ nextVid' = nextVid + 1
                /\ calls' = Append(calls, call(TRUE))
                /\ fileIdx' = idx
                /\ IF many /\ idx < Len(request.files)
                   THEN UNCHANGED <<pc, response>>
                   ELSE Respond(SuccessResponse)

\* mutant: an hour instead of ten minutes
PresignTtlHour == 60 * 60

\* index.ts:206  expiresIn: 60 * 10
PresignTtl == 600

\* getSignedUrl of @aws-sdk/s3-request-presigner, called at index.ts:206: the
\* library is not part of the repository's sources; the URL is what spec
\* sections 4.2 and 8 say of it: usable with no additional credentials,
\* credential-free, for one key of one bucket and for expiresIn seconds from
\* the time of signing
getSignedUrl(e, bucket, k, expiresIn) ==
    [bucket |-> bucket, key |-> k, expiresIn |-> expiresIn, issuedAt |-> now]

\* index.ts:200-213  getSignedUrl signs locally: no store call is made
PresignStep ==
    /\ UNCHANGED clientVars
    /\ pc = "presign"
    /\ UNCHANGED <<storeVars, nreq, request, bucketName, buffer, stream, deleteVars, calls>>
    /\ Respond([status |-> 200,
                body |-> [success |-> TRUE,
                          url |-> getSignedUrl(env, bucketName, request.filePath,
                                               PresignTtl)]])

\* ------------------------------------------------------------------------
\* The client transfer agent: storjService of src/lib/storj.ts
\* A call runs without interruption from one await to the next; several calls
\* can be in progress, one in each slot.
\* ------------------------------------------------------------------------

Slots == 1..MaxSlots

Null == [null |-> TRUE]
NoRequest == [method |-> "NONE"]
NoFile == [name |-> "", type |-> "", bytes |-> <<>>]
NoCall == [fn |-> "none", by |-> "none", file |-> NoFile, filePath |-> Undefined,
           bucket |-> ""]
NoUrl == [bucket |-> "", key |-> Undefined, expiresIn |-> 0, issuedAt |-> 0,
          credential |-> "", signature |-> ""]
NoReader == [url |-> NoUrl, total |-> 0, contentType |-> "", hasBody |-> FALSE,
             received |-> 0, chunks |-> <<>>, unread |-> <<>>]
NoResult == [data |-> Null, error |-> FALSE]

Pending == [state |-> "pending"]
Resolved(value) == [state |-> "resolved", value |-> value]
Rejected(message) == [state |-> "rejected", message |-> message]
Void == [void |-> TRUE]

Blob(bytes, type) == [bytes |-> bytes, type |-> type]

\* the lowest slot without a call in progress
FreeSlots == {s \in Slots : cpc[s] = "idle"}
FreeSlot == CHOOSE s \in FreeSlots : \A t \in FreeSlots : s <= t

\* storj.ts:15-17  the windows from offset i on, each turned into code units
\* (String.fromCharCode gives the code unit of the same value for every byte)
RECURSIVE EncodeFrom(_, _)

\* mutant: every window is sliced one byte short of chunkSize
EncodeFromShort(uint8Array, i) ==
    IF i >= Len(uint8Array) THEN <<>>
    ELSE LET chunk == SubSeq(uint8Array, i + 1,
                             Min(i + chunkSize - 1, Len(uint8Array)))
         IN chunk \o EncodeFrom(uint8Array, i + chunkSize)

EncodeFrom(uint8Array, i) ==
    IF i >= Len(uint8Array) THEN <<>>
    ELSE LET chunk == SubSeq(uint8Array, i + 1, Min(i + chunkSize, Len(uint8Array)))
         IN chunk \o EncodeFrom(uint8Array, i + chunkSize)

\* storj.ts:15-27  what the turns lo..hi of the encode loop report, the turn
\* n being the one with i = n * chunkSize, and lastReportedProgress after them
RECURSIVE EncodeTurns(_, _, _, _)

\* mutant: every turn of the loop reports
EncodeTurnsUnthrottled(length, lo, hi, lastReportedProgress) ==
    [reports |-> [n \in 1..(hi - lo + 1) |->
                     FloorRatioTimes((lo + n - 1) * chunkSize, length, 50)],
     lastReportedProgress |-> lastReportedProgress]

EncodeTurns(length, lo, hi, lastReportedProgress) ==
    IF lo > hi
    THEN [reports |-> <<>>, lastReportedProgress |-> lastReportedProgress]
    ELSE IF lo = hi
    THEN LET i == lo * chunkSize
             progress == FloorRatioTimes(i, length, 50)
         IN IF progress - lastReportedProgress >= 5
            THEN [reports |-> <<progress>>, lastReportedProgress |-> progress]
            ELSE [reports |-> <<>>, lastReportedProgress |-> lastReportedProgress]
    ELSE LET mid == (lo + hi) \div 2
             first == EncodeTurns(length, lo, mid, lastReportedProgress)
             rest == EncodeTurns(length, mid + 1, hi, first.lastReportedProgress)
         IN [reports |-> first.reports \o rest.reports,
             lastReportedProgress |-> rest.lastReportedProgress]

\* storj.ts:13-27  the values the encode loop reports for a file of `length`
\* bytes
EncodeReports(length) ==
    EncodeTurns(length, 0, (length - 1) \div chunkSize, -1).reports

\* storj.ts:205-213  the values the decode loop reports: one for every i that
\* is a multiple of 10000
LegacyDecodeReports(length) ==
    [n \in 1..((length + 9999) \div 10000) |->
        50 + FloorRatioTimes((n - 1) * 10000, length, 50)]

\* data?.success
Success(data) == "success" \in DOMAIN data /\ data.success = TRUE

\* data?.url
HasUrl(data) == "url" \in DOMAIN data

\* what invoke resolves to for a response: a non-2xx status is an error
InvokeResult(r) ==
    IF r.status \in 200..299 THEN [data |-> r.body, error |-> FALSE]
    ELSE [data |-> Null, error |-> TRUE]

\* the request or the response did not get through
FetchError == [data |-> Null, error |-> TRUE]

Set(f, s, value) == [f EXCEPT ![s] = value]

MapWith(m, name, value) ==
    [x \in (DOMAIN m) \cup {name} |-> IF x = name THEN value ELSE m[x]]

EmptyMap == [x \in {} |-> 0]

\* Download.tsx:231  Math.floor((i / files.length) * 80)
FileProgress(i, n) == FloorRatioTimes(i, n, 80)

\* Download.tsx:235  fileProgress + Math.floor((progress / 100) * (80 / files.length)),
\* for the batches of 1, 2, 4 or 5 files, where 80 / files.length is a whole number
OverallProgress(i, n, progress) ==
    FileProgress(i, n) + FloorRatioTimes(progress, 100, 80 \div n)

\* the onProgress callbacks: Download.tsx:160-162 and 234-237, Dashboard.tsx:230-235
OnProgress(s, c, log, values) ==
    /\ progressLog' = Set(progressLog, s, log \o values)
    /\ downloadProgress' =
          IF values # <<>> /\ c.by = "handleDownload" THEN values[Len(values)]
          ELSE IF values # <<>> /\ c.by = "handleBatchDownload"
          THEN OverallProgress(bi, Len(pageFiles), values[Len(values)])
          ELSE downloadProgress
    /\ uploadProgress' =
          IF values # <<>> /\ c.by = "handleFileUpload"
          THEN MapWith(uploadProgress, c.file.name, values[Len(values)])
          ELSE uploadProgress

NoProgress == UNCHANGED <<progressLog, downloadProgress, uploadProgress>>

\* supabase.functions.invoke('storj-operations', { body })
Invoke(s, body) ==
    /\ outbox' = Set(outbox, s, body)
    /\ net' = Set(net, s, "sending")

\* the promise of the call settles
Settle(s, r) ==
    /\ result' = Set(result, s, r)
    /\ cpc' = Set(cpc, s, "settled")
    /\ net' = Set(net, s, "none")

\* the request reaches the proxy
Deliver(s) ==
    /\ net[s] = "sending"
    /\ serving = 0
    /\ Serve(outbox[s])
    /\ serving' = s
    /\ net' = Set(net, s, "proxy")
    /\ UNCHANGED <<cpc, xfer, progressLog, result, reader, outbox, inbox, pageVars>>

\* the request reaches the older handler
DeliverOlder(s) ==
    /\ net[s] = "sending"
    /\ serving = 0
    /\ ServeOlder(outbox[s])
    /\ serving' = s
    /\ net' = Set(net, s, "proxy")
    /\ UNCHANGED <<cpc, xfer, progressLog, result, reader, outbox, inbox, pageVars>>

\* the request does not reach the proxy
Lose(s) ==
    /\ net[s] = "sending"
    /\ inbox' = Set(inbox, s, FetchError)
    /\ net' = Set(net, s, "replied")
    /\ UNCHANGED <<cpc, xfer, progressLog, result, reader, outbox, serving>>
    /\ UNCHANGED <<proxyAll, pageVars>>

\* the response of the proxy reaches the client, or is lost on the way
Reply(s) ==
    /\ serving = s
    /\ pc = "done"
    /\ \E arrived \in BOOLEAN :
          inbox' = Set(inbox, s, IF arrived THEN InvokeResult(response) ELSE FetchError)
    /\ net' = Set(net, s, "replied")
    /\ serving' = 0
    /\ UNCHANGED <<cpc, xfer, progressLog, result, reader, outbox>>
    /\ UNCHANGED <<proxyAll, pageVars>>

Replied(s, fn) == cpc[s] = "invoke" /\ xfer[s].fn = fn /\ net[s] = "replied"

UploadCall(f, filePath, bucket, by) ==
    [fn |-> "uploadFile", by |-> by, file |-> f, filePath |-> filePath, bucket |-> bucket]

\* storj.ts:5-7  uploadFile is called: await file.arrayBuffer()
StartUploadFile(s, f, filePath, bucket, by) ==
    /\ cpc' = Set(cpc, s, "arrayBuffer")
    /\ xfer' = Set(xfer, s, UploadCall(f, filePath, bucket, by))
    /\ progressLog' = Set(progressLog, s, <<>>)
    /\ result' = Set(result, s, Pending)
    /\ UNCHANGED <<reader, outbox, inbox, net, serving>>

\* storj.ts:8-42  the file is read: the encode loop, btoa, and the invoke
UploadEncoded(s) ==
    /\ cpc[s] = "arrayBuffer"
    /\ xfer[s].fn = "uploadFile"
    /\ LET uint8Array == xfer[s].file.bytes
           binaryString == EncodeFrom(uint8Array, 0)
           base64 == Btoa(binaryString)
       IN /\ OnProgress(s, xfer[s], progressLog[s],
                        EncodeReports(Len(uint8Array)) \o <<50>>)
          /\ Invoke(s, Req("upload", xfer[s].filePath, <<>>, base64,
                           xfer[s].file.type, xfer[s].bucket))
    /\ cpc' = Set(cpc, s, "invoke")
    /\ UNCHANGED <<xfer, result, reader, inbox, serving>>
    /\ UNCHANGED <<proxyAll, rows, toast, downloadRest, uploadRest>>

\* storj.ts:44-47  the invoke of uploadFile resolved
UploadReturned(s) ==
    /\ Replied(s, "uploadFile")
    /\ OnProgress(s, xfer[s], progressLog[s], <<100>>)
    /\ Settle(s, IF inbox[s].error THEN Rejected("FunctionsError")
                 ELSE IF ~Success(inbox[s].data) THEN Rejected("Upload failed")
                 ELSE Resolved(Void))
    /\ UNCHANGED <<xfer, reader, outbox, inbox, serving>>
    /\ UNCHANGED <<proxyAll, rows, toast, downloadRest, uploadRest>>

\* storj.ts:155
legacyChunkSize == 1024

\* storj.ts:157-159  the windows of the older uploadFile from offset i on
RECURSIVE LegacyEncodeFrom(_, _)
LegacyEncodeFrom(uint8Array, i) ==
    IF i >= Len(uint8Array) THEN <<>>
    ELSE LET chunk == SubSeq(uint8Array, i + 1,
                             Min(i + legacyChunkSize, Len(uint8Array)))
         IN chunk \o LegacyEncodeFrom(uint8Array, i + legacyChunkSize)

\* storj.ts:157-166  the values the encode loop of the older uploadFile
\* reports: one for every window
LegacyEncodeReports(length) ==
    [n \in 1..((length + legacyChunkSize - 1) \div legacyChunkSize) |->
        FloorRatioTimes((n - 1) * legacyChunkSize, length, 50)]

\* storj.ts:148-150  the older uploadFile is called: await file.arrayBuffer()
StartLegacyUploadFile(s, f, filePath, by) ==
    /\ cpc' = Set(cpc, s, "arrayBuffer")
    /\ xfer' = Set(xfer, s, [fn |-> "legacyUploadFile", by |-> by, file |-> f,
                             filePath |-> filePath, bucket |-> ""])
    /\ progressLog' = Set(progressLog, s, <<>>)
    /\ result' = Set(result, s, Pending)
    /\ UNCHANGED <<reader, outbox, inbox, net, serving>>

\* storj.ts:151-180  the file is read: the encode loop, btoa, and the invoke,
\* whose body has no field `bucket`
LegacyUploadEncoded(s) ==
    /\ cpc[s] = "arrayBuffer"
    /\ xfer[s].fn = "legacyUploadFile"
    /\ LET uint8Array == xfer[s].file.bytes
           binaryString == LegacyEncodeFrom(uint8Array, 0)
           base64 == Btoa(binaryString)
       IN /\ OnProgress(s, xfer[s], progressLog[s],
                        LegacyEncodeReports(Len(uint8Array)) \o <<50>>)
          /\ Invoke(s, Req("upload", xfer[s].filePath, <<>>, base64,
                           xfer[s].file.type, ""))
    /\ cpc' = Set(cpc, s, "invoke")
    /\ UNCHANGED <<xfer, result, reader, inbox, serving>>
    /\ UNCHANGED <<proxyAll, rows, toast, downloadRest, uploadRest>>

\* storj.ts:182-185  the invoke of the older uploadFile resolved
LegacyUploadReturned(s) ==
    /\ Replied(s, "legacyUploadFile")
    /\ OnProgress(s, xfer[s], progressLog[s], <<100>>)
    /\ Settle(s, IF inbox[s].error THEN Rejected("FunctionsError")
                 ELSE IF ~Success(inbox[s].data) THEN Rejected("Upload failed")
                 ELSE Resolved(Void))
    /\ UNCHANGED <<xfer, reader, outbox, inbox, serving>>
    /\ UNCHANGED <<proxyAll, rows, toast, downloadRest, uploadRest>>

\* storj.ts:188-195  the legacy downloadFile is called
StartLegacyDownloadFile(s, filePath, by) ==
    /\ cpc' = Set(cpc, s, "invoke")
    /\ xfer' = Set(xfer, s, [fn |-> "legacyDownloadFile", by |-> by, file |-> NoFile,
                             filePath |-> filePath, bucket |-> ""])
    /\ OnProgress(s, xfer'[s], <<>>, <<10>>)
    /\ result' = Set(result, s, Pending)
    /\ Invoke(s, Req("download", filePath, <<>>, <<>>, "", ""))
    /\ UNCHANGED <<reader, inbox, serving>>

\* storj.ts:197-217  the invoke of the legacy downloadFile resolved
LegacyReturned(s) ==
    /\ Replied(s, "legacyDownloadFile")
    /\ LET data == inbox[s].data
           ok == ~inbox[s].error /\ Success(data)
           binaryString == Atob(data.data)
           bytes == binaryString
       IN /\ OnProgress(s, xfer[s], progressLog[s],
                        IF ok THEN <<50>> \o LegacyDecodeReports(Len(binaryString))
                                        \o <<100>>
                        ELSE <<50>>)
          /\ Settle(s, IF inbox[s].error THEN Rejected("FunctionsError")
                       ELSE IF ~Success(data) THEN Rejected("Download failed")
                       ELSE Resolved(Blob(bytes, data.contentType)))
    /\ UNCHANGED <<xfer, reader, outbox, inbox, serving>>
    /\ UNCHANGED <<proxyAll, rows, toast, downloadRest, uploadRest>>

\* part_003:5-7  the uploadFile of the oldest storjService is called, which
\* has no onProgress: await file.arrayBuffer()
StartOldestUploadFile(s, f, filePath, by) ==
    /\ cpc' = Set(cpc, s, "arrayBuffer")
    /\ xfer' = Set(xfer, s, [fn |-> "oldestUploadFile", by |-> by, file |-> f,
                             filePath |-> filePath, bucket |-> ""])
    /\ progressLog' = Set(progressLog, s, <<>>)
    /\ result' = Set(result, s, Pending)
    /\ UNCHANGED <<reader, outbox, inbox, net, serving>>

\* part_003:8-29  the file is read: the windows of 1024 bytes, btoa, and the
\* invoke; nothing is reported
OldestUploadEncoded(s) ==
    /\ cpc[s] = "arrayBuffer"
    /\ xfer[s].fn = "oldestUploadFile"
    /\ LET uint8Array == xfer[s].file.bytes
           binaryString == LegacyEncodeFrom(uint8Array, 0)
           base64 == Btoa(binaryString)
       IN Invoke(s, Req("upload", xfer[s].filePath, <<>>, base64, xfer[s].file.type, ""))
    /\ cpc' = Set(cpc, s, "invoke")
    /\ NoProgress
    /\ UNCHANGED <<xfer, result, reader, inbox, serving>>
    /\ UNCHANGED <<proxyAll, rows, toast, downloadRest, uploadRest>>

\* part_003:31-32  the invoke of the oldest uploadFile resolved
OldestUploadReturned(s) ==
    /\ Replied(s, "oldestUploadFile")
    /\ Settle(s, IF inbox[s].error THEN Rejected("FunctionsError")
                 ELSE IF ~Success(inbox[s].data) THEN Rejected("Upload failed")
                 ELSE Resolved(Void))
    /\ NoProgress
    /\ UNCHANGED <<xfer, reader, outbox, inbox, serving>>
    /\ UNCHANGED <<proxyAll, rows, toast, downloadRest, uploadRest>>

\* part_003:35-41  the downloadFile of the oldest storjService is called,
\* which has no onProgress
StartOldestDownloadFile(s, filePath, by) ==
    /\ cpc' = Set(cpc, s, "invoke")
    /\ xfer' = Set(xfer, s, [fn |-> "oldestDownloadFile", by |-> by, file |-> NoFile,
                             filePath |-> filePath, bucket |-> ""])
    /\ progressLog' = Set(progressLog, s, <<>>)
    /\ result' = Set(result, s, Pending)
    /\ Invoke(s, Req("download", filePath, <<>>, <<>>, "", ""))
    /\ UNCHANGED <<reader, inbox, serving>>

\* part_003:43-53  the invoke of the oldest downloadFile resolved: the Blob
\* of the decoded bytes, and nothing is reported
OldestReturned(s) ==
    /\ Replied(s, "oldestDownloadFile")
    /\ LET data == inbox[s].data
           binaryString == Atob(data.data)
           bytes == binaryString
       IN Settle(s, IF inbox[s].error THEN Rejected("FunctionsError")
                    ELSE IF ~Success(data) THEN Rejected("Download failed")
                    ELSE Resolved(Blob(bytes, data.contentType)))
    /\ NoProgress
    /\ UNCHANGED <<xfer, reader, outbox, inbox, serving>>
    /\ UNCHANGED <<proxyAll, rows, toast, downloadRest, uploadRest>>

\* storj.ts:50-58  the streamed downloadFile is called
StartDownloadFile(s, filePath, bucket, by) ==
    /\ cpc' = Set(cpc, s, "invoke")
    /\ xfer' = Set(xfer, s, [fn |-> "downloadFile", by |-> by, file |-> NoFile,
                             filePath |-> filePath, bucket |-> bucket])
    /\ progressLog' = Set(progressLog, s, <<>>)
    /\ result' = Set(result, s, Pending)
    /\ reader' = Set(reader, s, NoReader)
    /\ Invoke(s, Req("get-download-url", filePath, <<>>, <<>>, "", bucket))
    /\ UNCHANGED <<inbox, serving>>

\* storj.ts:60-63  the invoke of downloadFile resolved: fetch(data.url)
DownloadUrlReturned(s) ==
    /\ Replied(s, "downloadFile")
    /\ LET data == inbox[s].data
       IN IF inbox[s].error
          THEN Settle(s, Rejected("FunctionsError")) /\ UNCHANGED reader
          ELSE IF ~Success(data) \/ ~HasUrl(data)
          THEN Settle(s, Rejected("Failed to get download URL")) /\ UNCHANGED reader
          ELSE /\ reader' = Set(reader, s, [NoReader EXCEPT !.url = data.url])
               /\ cpc' = Set(cpc, s, "fetch")
               /\ net' = Set(net, s, "none")
               /\ UNCHANGED result
    /\ NoProgress
    /\ UNCHANGED <<xfer, outbox, inbox, serving>>
    /\ UNCHANGED <<proxyAll, rows, toast, downloadRest, uploadRest>>

\* the Content-Length header of a response with n bytes: absent, n, or less
\* than n (the length of an encoded transfer)
ContentLengths(n) == {0, n} \cup (IF n > 1 THEN {n - 1} ELSE {})

\* the sizes of the next chunk of a stream with n bytes left: all of them, half
\* of them, a single byte of a short rest, or 29 bytes of a long one
ChunkSizes(n) ==
    {n, (n + 1) \div 2} \cup (IF n <= 4 THEN {1} ELSE {}) \cup (IF n > 29 THEN {29} ELSE {})

\* mutant: the progress of the stream is not capped
StreamProgressUncapped(received, total) == FloorRatioTimes(received, total, 100)

\* mutant: the cap is 100
StreamProgressCappedAtHundred(received, total) ==
    Min(100, FloorRatioTimes(received, total, 100))

\* storj.ts:86
StreamProgress(received, total) == Min(99, FloorRatioTimes(received, total, 100))

\* storj.ts:63-77  the fetch of the presigned URL: it rejects (the network
\* failed), or resolves to a response that is not ok, or to one without a
\* stream, whose blob is awaited, or to one whose stream is read
FetchResponded(s) ==
    /\ cpc[s] = "fetch"
    /\ LET url == reader[s].url
           got == PresignedGet(store, url, now)
       IN \/ /\ Settle(s, Rejected("TypeError: Failed to fetch"))
             /\ UNCHANGED reader
          \/ /\ ~got.found
             /\ Settle(s, Rejected("Failed to fetch file"))
             /\ UNCHANGED reader
          \/ /\ got.found
             /\ \E total \in ContentLengths(Len(got.body)) :
                   reader' = Set(reader, s,
                       [url |-> url, total |-> total, contentType |-> got.contentType,
                        hasBody |-> FALSE, received |-> 0, chunks |-> <<>>, unread |-> got.body])
             /\ cpc' = Set(cpc, s, "blob")
             /\ UNCHANGED <<result, net>>
          \/ /\ got.found
             /\ \E total \in ContentLengths(Len(got.body)) :
                   reader' = Set(reader, s,
                       [url |-> url, total |-> total,
                        contentType |-> IF got.contentType = ""
                                        THEN "application/octet-stream"
                                        ELSE got.contentType,
                        hasBody |-> TRUE, received |-> 0, chunks |-> <<>>, unread |-> got.body])
             /\ cpc' = Set(cpc, s, "read")
             /\ UNCHANGED <<result, net>>
    /\ NoProgress
    /\ UNCHANGED <<xfer, outbox, inbox, serving>>
    /\ UNCHANGED <<proxyAll, rows, toast, downloadRest, uploadRest>>

\* storj.ts:71-73  res.blob() of a response without a stream settled: the
\* blob has the type of the response
BlobRead(s) ==
    /\ cpc[s] = "blob"
    /\ \/ /\ Settle(s, Rejected("TypeError: network error"))
          /\ NoProgress
       \/ /\ OnProgress(s, xfer[s], progressLog[s], <<100>>)
          /\ Settle(s, Resolved(Blob(reader[s].unread, reader[s].contentType)))
    /\ UNCHANGED <<xfer, reader, outbox, inbox, serving>>
    /\ UNCHANGED <<proxyAll, rows, toast, downloadRest, uploadRest>>

\* storj.ts:79-102  one reader.read(): a chunk, the end of the stream, or an
\* error of the connection
ReadChunk(s) ==
    /\ cpc[s] = "read"
    /\ LET r == reader[s]
       IN \/ /\ Settle(s, Rejected("TypeError: network error"))
             /\ NoProgress
             /\ UNCHANGED reader
          \/ /\ r.unread # <<>>
             /\ \E n \in ChunkSizes(Len(r.unread)) :
                  LET value == SubSeq(r.unread, 1, n)
                      received == r.received + Len(value)
                  IN /\ reader' = Set(reader, s,
                            [r EXCEPT !.chunks = Append(@, value),
                                      !.received = received,
                                      !.unread = SubSeq(r.unread, n + 1, Len(r.unread))])
                     /\ OnProgress(s, xfer[s], progressLog[s],
                                   IF r.total # 0
                                   THEN <<StreamProgress(received, r.total)>>
                                   ELSE <<>>)
             /\ UNCHANGED <<cpc, result, net>>
          \/ /\ r.unread = <<>>
             /\ LET merged == Concat(r.chunks)
                IN Settle(s, Resolved(Blob(merged, r.contentType)))
             /\ OnProgress(s, xfer[s], progressLog[s], <<100>>)
             /\ UNCHANGED reader
    /\ UNCHANGED <<xfer, outbox, inbox, serving>>
    /\ UNCHANGED <<proxyAll, rows, toast, downloadRest, uploadRest>>

\* storj.ts:131-138  getDownloadUrl is called
StartGetDownloadUrl(s, filePath, bucket, by) ==
    /\ cpc' = Set(cpc, s, "invoke")
    /\ xfer' = Set(xfer, s, [fn |-> "getDownloadUrl", by |-> by, file |-> NoFile,
                             filePath |-> filePath, bucket |-> bucket])
    /\ progressLog' = Set(progressLog, s, <<>>)
    /\ result' = Set(result, s, Pending)
    /\ Invoke(s, Req("get-download-url", filePath, <<>>, <<>>, "", bucket))
    /\ UNCHANGED <<reader, inbox, serving>>

\* storj.ts:139-141  the invoke of getDownloadUrl resolved
GetDownloadUrlReturned(s) ==
    /\ Replied(s, "getDownloadUrl")
    /\ LET data == inbox[s].data
       IN Settle(s, IF inbox[s].error THEN Rejected("FunctionsError")
                    ELSE IF ~Success(data) \/ ~HasUrl(data)
                    THEN Rejected("Failed to get download URL")
                    ELSE Resolved(data.url))
    /\ NoProgress
    /\ UNCHANGED <<xfer, reader, outbox, inbox, serving>>
    /\ UNCHANGED <<proxyAll, rows, toast, downloadRest, uploadRest>>

\* ------------------------------------------------------------------------
\* A page that awaits one storjService call and takes its result
\* ------------------------------------------------------------------------

Bytes(alphabet, maxLen) ==
    UNION {[1..n -> alphabet] : n \in 0..maxLen}

\* n bytes that differ from window to window
Pattern(n) == [j \in 1..n |-> (7 * j) % 251]

\* contents of exactly one window, of a window and a byte, and of two windows
\* and a byte: their lengths leave the remainders 1, 2 and 0 when divided by 3
WindowContents ==
    {Pattern(n) \o <<>> : n \in {chunkSize, chunkSize + 1, 2 * chunkSize + 1}}

\* the files of the transfers: every content of up to three bytes over two
\* byte values, and two files without a content type
TransferFiles ==
    {[name |-> "f.txt", type |-> "text/plain", bytes |-> b] : b \in Bytes({0, 255}, 3)}
      \cup {[name |-> "f", type |-> "", bytes |-> b] : b \in {<<>>, <<65, 66>>}}

\* storj.ts:5  a caller of uploadFile whose onProgress keeps the values it is
\* given (progressLog); it uploads under a key the store does not hold
CallUploadFile ==
    /\ FreeSlots = Slots
    /\ ~GetObject(store, DEFAULT_BUCKET, KeyA).found
    /\ \E f \in TransferFiles :
          StartUploadFile(FreeSlot, f, KeyA, "", "page")
    /\ UNCHANGED <<downloadProgress, uploadProgress>>
    /\ UNCHANGED <<proxyAll, rows, toast, downloadRest, uploadRest>>

\* storj.ts:148  a caller of the older uploadFile, its onProgress keeping the
\* values
CallLegacyUploadFile ==
    /\ FreeSlots = Slots
    /\ ~GetObject(store, DEFAULT_BUCKET, KeyA).found
    /\ \E f \in TransferFiles :
          StartLegacyUploadFile(FreeSlot, f, KeyA, "page")
    /\ UNCHANGED <<downloadProgress, uploadProgress>>
    /\ UNCHANGED <<proxyAll, rows, toast, downloadRest, uploadRest>>

CallLegacyDownloadFile ==
    /\ FreeSlots = Slots
    /\ StartLegacyDownloadFile(FreeSlot, KeyA, "page")
    /\ UNCHANGED <<proxyAll, rows, toast, downloadRest, uploadRest>>

\* part_003:5  a caller of the oldest uploadFile
CallOldestUploadFile ==
    /\ FreeSlots = Slots
    /\ ~GetObject(store, DEFAULT_BUCKET, KeyA).found
    /\ \E f \in TransferFiles :
          StartOldestUploadFile(FreeSlot, f, KeyA, "page")
    /\ UNCHANGED <<downloadProgress, uploadProgress>>
    /\ UNCHANGED <<proxyAll, rows, toast, downloadRest, uploadRest>>

\* part_003:35  a caller of the oldest downloadFile
CallOldestDownloadFile ==
    /\ FreeSlots = Slots
    /\ StartOldestDownloadFile(FreeSlot, KeyA, "page")
    /\ UNCHANGED <<downloadProgress, uploadProgress>>
    /\ UNCHANGED <<proxyAll, rows, toast, downloadRest, uploadRest>>

CallDownloadFile ==
    /\ FreeSlots = Slots
    /\ StartDownloadFile(FreeSlot, KeyA, "", "page")
    /\ UNCHANGED <<downloadProgress, uploadProgress>>
    /\ UNCHANGED <<proxyAll, rows, toast, downloadRest, uploadRest>>

\* the awaiting page resumes with the result, and nothing refers to the call
\* any more
TakeResult(s) ==
    /\ cpc[s] = "settled"
    /\ xfer[s].by = "page"
    /\ cpc' = Set(cpc, s, "idle")
    /\ xfer' = Set(xfer, s, NoCall)
    /\ progressLog' = Set(progressLog, s, <<>>)
    /\ result' = Set(result, s, Pending)
    /\ reader' = Set(reader, s, NoReader)
    /\ outbox' = Set(outbox, s, NoRequest)
    /\ inbox' = Set(inbox, s, NoResult)
    /\ UNCHANGED <<net, serving>>
    /\ UNCHANGED <<proxyAll, pageVars>>

\* ------------------------------------------------------------------------
\* The download page: handleDownload of src/pages/Download.tsx
\* ------------------------------------------------------------------------

\* Download.tsx:81 and 115, part_004:46-47  expires_at is set and has passed
Expired(r, t) == r.expires_at # 0 /\ r.expires_at < t

NoRow == [id |-> 0, filename |-> "", storage_path |-> Undefined, download_count |-> 0,
          password_hash |-> <<>>]

NoClick == [kind |-> "none", blob |-> Blob(<<>>, ""), url |-> NoUrl]

\* Download.tsx:138-141
verifyPassword(fileData) ==
    IF fileData.password_hash = <<>> THEN TRUE
    ELSE Btoa(password) = fileData.password_hash

\* btoa throws InvalidCharacterError for a code unit above 255
BtoaThrows(s) == \E n \in DOMAIN s : s[n] > 255

\* Download.tsx:138-141  verifyPassword throws what btoa throws
VerifyThrows(fileData) == fileData.password_hash # <<>> /\ BtoaThrows(password)

\* the slot of the call handleDownload awaits
DownloadSlot == CHOOSE s \in Slots : xfer[s].by = "handleDownload"

\* the clicks the page may take while handlers of earlier clicks still run
MaxEarlier == 1

\* Download.tsx:459  the button is enabled again as soon as `downloading` is
\* false: handleDownload awaits neither downloadFile nor getDownloadUrl
Quiet(h) == h \in {"idle", "update", "loadFile"}

\* Download.tsx:459 and 538  disabled={downloading || (requiresPassword &&
\* !password)}: what of it the password decides
PasswordMissing == requiresPassword /\ password = <<>>

\* Download.tsx:143-162, 308 and 538  the click, up to the await of
\* downloadFile; the button is there while the page does not show "not found"
\* and is enabled while `downloading` is false, so that the handler of an
\* earlier click may still await its count update or its loadFile, and while
\* no password is required or one is typed
HandleDownload ==
    /\ Quiet(hpc)
    /\ ~PasswordMissing
    /\ hpc # "idle" => Len(earlier) < MaxEarlier
    /\ file # NoRow
    /\ ~notFound
    /\ file.download_count < MaxDownloads
    /\ FreeSlots # {}
    /\ IF requiresPassword /\ VerifyThrows(file)
       THEN /\ unhandled' = "InvalidCharacterError"
            /\ UNCHANGED <<agentVars, hpc, downloading, downloadProgress, clicked, issued,
                           passwordError, toast, clickVars>>
       ELSE IF requiresPassword /\ ~verifyPassword(file)
       THEN /\ passwordError' = TRUE
            /\ toast' = "Incorrect password"
            /\ UNCHANGED <<agentVars, hpc, downloading, downloadProgress, clicked, issued>>
            /\ UNCHANGED <<unhandled, clickVars>>
       ELSE /\ downloading' = TRUE
            /\ downloadProgress' = 0
            /\ StartDownloadFile(FreeSlot, file.storage_path, "", "handleDownload")
            /\ hpc' = "downloadFile"
            /\ clickFile' = file
            /\ earlier' = IF hpc = "idle" THEN earlier
                          ELSE Append(earlier, [at |-> hpc, file |-> clickFile])
            /\ clicked' = NoClick
            /\ issued' = <<outbox'[FreeSlot].operation>>
            /\ UNCHANGED <<passwordError, toast, unhandled>>
    /\ UNCHANGED <<store, versioned, nextVid, pageSize, env, holderVars, rowsVars, pairVars>>
    /\ UNCHANGED <<enc, olderVars, recipientVars, pageFiles, bi, zip, deleteVars, proxyVars>>
    /\ UNCHANGED <<rows, file, requiresPassword, password, uploadPage>>

\* mutant: getDownloadUrl is called whether downloadFile failed or not
HandleDownloadSettledAlways ==
    /\ hpc = "downloadFile"
    /\ cpc[DownloadSlot] = "settled"
    /\ StartGetDownloadUrl(DownloadSlot, clickFile.storage_path, "", "handleDownload")
    /\ hpc' = "getDownloadUrl"
    /\ issued' = Append(issued, outbox'[DownloadSlot].operation)
    /\ UNCHANGED <<clicked, downloading, downloadProgress>>
    /\ UNCHANGED <<proxyAll, rows, toast, file, requiresPassword, password>>
    /\ UNCHANGED <<passwordError, uploadPage>>

\* Download.tsx:164-174 and 189-197  downloadFile settled: the blob is saved
\* and the count update is sent, or getDownloadUrl is called
HandleDownloadSettled ==
    /\ hpc = "downloadFile"
    /\ cpc[DownloadSlot] = "settled"
    /\ LET s == DownloadSlot
       IN IF result[s].state = "resolved"
          THEN /\ clicked' = [NoClick EXCEPT !.kind = "blob", !.blob = result[s].value]
               /\ downloading' = FALSE
               /\ downloadProgress' = 0
               /\ hpc' = "update"
               /\ cpc' = Set(cpc, s, "idle")
               /\ UNCHANGED <<xfer, progressLog, result, reader, outbox, inbox, net>>
               /\ UNCHANGED <<serving, issued>>
          ELSE /\ StartGetDownloadUrl(s, clickFile.storage_path, "", "handleDownload")
               /\ hpc' = "getDownloadUrl"
               /\ issued' = Append(issued, outbox'[s].operation)
               /\ UNCHANGED <<clicked, downloading, downloadProgress>>
    /\ UNCHANGED <<proxyAll, rows, toast, file, requiresPassword, password>>
    /\ UNCHANGED <<passwordError, uploadPage>>

\* mutant: the failure is shown although getDownloadUrl resolved
HandleFallbackSettledToasts ==
    /\ hpc = "getDownloadUrl"
    /\ cpc[DownloadSlot] = "settled"
    /\ LET s == DownloadSlot
       IN /\ IF result[s].state = "resolved"
             THEN /\ clicked' = [NoClick EXCEPT !.kind = "url", !.url = result[s].value]
                  /\ hpc' = "update"
                  /\ toast' = "Download failed"
             ELSE /\ toast' = "Download failed"
                  /\ hpc' = "idle"
                  /\ UNCHANGED clicked
          /\ cpc' = Set(cpc, s, "idle")
    /\ downloading' = FALSE
    /\ downloadProgress' = 0
    /\ UNCHANGED <<xfer, progressLog, result, reader, outbox, inbox, net, serving>>
    /\ UNCHANGED <<proxyAll, rows, file, requiresPassword, password, passwordError>>
    /\ UNCHANGED <<issued, uploadPage>>

\* Download.tsx:174-197  getDownloadUrl settled: the URL is opened and the
\* count update is sent, or the failure is shown
HandleFallbackSettled ==
    /\ hpc = "getDownloadUrl"
    /\ cpc[DownloadSlot] = "settled"
    /\ LET s == DownloadSlot
       IN /\ IF result[s].state = "resolved"
             THEN /\ clicked' = [NoClick EXCEPT !.kind = "url", !.url = result[s].value]
                  /\ hpc' = "update"
                  /\ UNCHANGED toast
             ELSE /\ toast' = "Download failed"
                  /\ hpc' = "idle"
                  /\ UNCHANGED clicked
          /\ cpc' = Set(cpc, s, "idle")
    /\ downloading' = FALSE
    /\ downloadProgress' = 0
    /\ UNCHANGED <<xfer, progressLog, result, reader, outbox, inbox, net, serving>>
    /\ UNCHANGED <<proxyAll, rows, file, requiresPassword, password, passwordError>>
    /\ UNCHANGED <<issued, uploadPage>>

UpdateRow(rs, id, count) ==
    [n \in DOMAIN rs |->
        IF rs[n].id = id THEN [rs[n] EXCEPT !.download_count = count] ELSE rs[n]]

\* Download.tsx:188-193  the update of download_count sent by the handler
\* of the click on row f returned (its error is not looked at)
CountUpdated(f) ==
    /\ \E ok \in BOOLEAN :
          rows' = IF ok THEN UpdateRow(rows, f.id, f.download_count + 1) ELSE rows
    /\ toast' = "Download complete"

\* Download.tsx:188-203  the update of download_count returned; loadFile is
\* called
HandleCountUpdated ==
    /\ hpc = "update"
    /\ CountUpdated(clickFile)
    /\ hpc' = "loadFile"
    /\ UNCHANGED <<proxyAll, agentVars, file, requiresPassword, password, passwordError>>
    /\ UNCHANGED <<downloading, downloadProgress, clicked, issued, uploadPage>>

\* Download.tsx:68-101  loadFile, called by handleDownload, read the row
\* again: a row that is gone or has expired makes the page show "not found",
\* and the deletion of an expired row is sent; another error is shown
Reloaded(fileId) ==
    LET found == {n \in DOMAIN rows : rows[n].id = fileId}
    IN \/ /\ found = {}
          /\ notFound' = TRUE
          /\ UNCHANGED <<toast, file, requiresPassword, lpc, loadKey>>
       \/ /\ found # {}
          /\ LET data == rows[CHOOSE n \in found : TRUE]
             IN IF Expired(data, now)
                THEN /\ notFound' = TRUE
                     /\ lpc' = "deleteFile"
                     /\ loadKey' = fileId
                     /\ UNCHANGED <<file, requiresPassword>>
                ELSE /\ file' = data
                     /\ requiresPassword' = (data.password_hash # <<>>)
                     /\ UNCHANGED <<notFound, lpc, loadKey>>
          /\ UNCHANGED toast
       \/ /\ toast' = "Error"
          /\ UNCHANGED <<file, requiresPassword, notFound, lpc, loadKey>>

\* Download.tsx:195-203  the loadFile of handleDownload returned
HandleReloaded ==
    /\ hpc = "loadFile"
    /\ Reloaded(file.id)
    /\ hpc' = "idle"
    /\ UNCHANGED <<store, versioned, nextVid, pageSize, env, holderVars, pairVars, lateVars>>
    /\ UNCHANGED <<deleteVars, proxyVars, dpc, doomed, job>>
    /\ UNCHANGED <<agentVars, rows, password, passwordError>>
    /\ UNCHANGED <<downloading, downloadProgress, clicked, issued, uploadPage>>

\* everything the handler of an earlier click leaves alone
earlierRest == <<store, versioned, nextVid, pageSize, env, holderVars, pairVars, enc,
                 olderVars, recipientVars, batchVars, deleteVars, proxyVars, dpc, doomed, job,
                 agentVars, password, passwordError, hpc, clickFile, downloading,
                 downloadProgress, clicked, issued, uploadPage>>

\* Download.tsx:188-195  the count update of the handler of an earlier click
\* returned
EarlierCountUpdated(n) ==
    /\ n \in DOMAIN earlier
    /\ earlier[n].at = "update"
    /\ CountUpdated(earlier[n].file)
    /\ earlier' = [earlier EXCEPT ![n].at = "loadFile"]
    /\ UNCHANGED <<earlierRest, file, requiresPassword, lpc, loadKey, notFound>>

\* Download.tsx:195-203  the loadFile of the handler of an earlier click
\* returned
EarlierReloaded(n) ==
    /\ n \in DOMAIN earlier
    /\ earlier[n].at = "loadFile"
    /\ Reloaded(earlier[n].file.id)
    /\ earlier' = SubSeq(earlier, 1, n - 1) \o SubSeq(earlier, n + 1, Len(earlier))
    /\ UNCHANGED <<earlierRest, rows>>

\* ------------------------------------------------------------------------
\* The dashboard: handleFileUpload of src/pages/Dashboard.tsx
\* ------------------------------------------------------------------------

\* Dashboard.tsx:226-228  `${user.id}/${Date.now()}-${random}.${ext}`: a name
\* no upload of the page was given before; n names have been made
UploadPath(n) == AllKeys[n + 1]

FileA == [name |-> "a.txt", type |-> "text/plain", bytes |-> <<65>>]
FileB == [name |-> "b.txt", type |-> "text/plain", bytes |-> <<66, 66>>]
FileC == [name |-> "c.txt", type |-> "text/plain", bytes |-> <<67, 67, 67>>]
Selections == {<<FileA>>, <<FileA, FileB>>, <<FileC>>}

\* the password of handlePasswordProtectedUpload (Dashboard.tsx:302-308), none
\* for the plain input (Dashboard.tsx:481); the input that asks for one is
\* there on a plan with hasPasswordProtection (Dashboard.tsx:486)
UploadPasswords == {<<>>, <<112>>, <<8364>>}

\* useSubscription.tsx:20-32  PLAN_LIMITS of the free and the pro plan, their
\* sizes scaled to files of a few bytes
Plans == {[maxStorage |-> 4, maxFileSize |-> 2, retentionDays |-> 7,
           hasPasswordProtection |-> FALSE],
          [maxStorage |-> 8, maxFileSize |-> 4, retentionDays |-> 30,
           hasPasswordProtection |-> TRUE]}

\* Dashboard.tsx:46  the values of `storageUsed` looked at
StorageUsed == {0, 2}

\* Dashboard.tsx:222  setDate(getDate() + 1), in the unit of `now`
Day == 86400

\* Dashboard.tsx:193  the sum of file.size over the selection
RECURSIVE TotalSize(_)
TotalSize(fs) == IF fs = <<>> THEN 0 ELSE Len(Head(fs).bytes) + TotalSize(Tail(fs))

\* the promises of the selection handleFileUpload awaits: the last ones made
Current ==
    {n \in DOMAIN uploadPromises : n > Len(uploadPromises) - Len(selectedFiles)}

\* the promises of the page whose upload or insert has not returned
Outstanding == {n \in DOMAIN uploadPromises : uploadPromises[n].at \in {"uploadFile", "insert"}}

\* a promise once settled: only its outcome is looked at
SettledAs(t, at) ==
    [t EXCEPT !.at = at, !.slot = 0, !.batch_id = 0, !.expires_at = 0, !.password = <<>>]

\* the n-th slot, from the lowest, without a call in progress
NthFree(n) ==
    CHOOSE s \in FreeSlots : Cardinality({t \in FreeSlots : t < s}) = n - 1

\* Dashboard.tsx:188-259  a selection: beyond the limits of the plan it is
\* refused; otherwise every upload is started, then await Promise.all. The
\* input is enabled while `uploading` is false, also while uploads of an
\* earlier selection, whose Promise.all was rejected, still run
HandleFileUpload ==
    /\ uhpc = "idle"
    /\ \E files \in Selections, pw \in UploadPasswords, storageUsed \in StorageUsed,
          limits \in Plans :
          /\ pw # <<>> => limits.hasPasswordProtection
          /\ LET totalSize == TotalSize(files)
                 made == Len(uploadPromises)
                 batchId == IF Len(files) > 1 THEN made + 1 ELSE 0
                 expiresAt == now + limits.retentionDays * Day
             IN IF storageUsed + totalSize > limits.maxStorage
                THEN /\ toast' = "Storage limit exceeded"
                     /\ UNCHANGED <<agentVars, uploadPage>>
                ELSE IF \E n \in DOMAIN files : Len(files[n].bytes) > limits.maxFileSize
                THEN /\ toast' = "File too large"
                     /\ UNCHANGED <<agentVars, uploadPage>>
                ELSE /\ Len(rows) + Len(files) <= MaxRows
                     /\ made + Len(files) <= Len(AllKeys)
                     /\ Cardinality(FreeSlots) >= Len(files)
                     /\ selectedFiles' = files
                     /\ uploadPromises' = uploadPromises \o
                           [n \in DOMAIN files |->
                               [at |-> "uploadFile", slot |-> NthFree(n), file |-> files[n],
                                filePath |-> UploadPath(made + n - 1), batch_id |-> batchId,
                                expires_at |-> expiresAt, password |-> pw]]
                     /\ LET started == {NthFree(n) : n \in DOMAIN files}
                            nth(t) == CHOOSE n \in DOMAIN files : NthFree(n) = t
                        IN /\ cpc' = [t \in Slots |->
                                         IF t \in started THEN "arrayBuffer" ELSE cpc[t]]
                           /\ xfer' = [t \in Slots |->
                                         IF t \in started
                                         THEN UploadCall(files[nth(t)],
                                                         UploadPath(made + nth(t) - 1), "",
                                                         "handleFileUpload")
                                         ELSE xfer[t]]
                           /\ progressLog' = [t \in Slots |->
                                         IF t \in started THEN <<>> ELSE progressLog[t]]
                           /\ result' = [t \in Slots |->
                                         IF t \in started THEN Pending ELSE result[t]]
                     /\ uploading' = TRUE
                     /\ uploadProgress' = EmptyMap
                     /\ uhpc' = "all"
                     /\ UNCHANGED <<reader, outbox, inbox, net, serving, toast, listed>>
    /\ UNCHANGED <<proxyAll, rows, downloadPage>>

\* Dashboard.tsx:230-249  uploadFile of the n-th promise settled: the row is
\* made and its insert sent, or the promise is rejected, also by the btoa of
\* the password
UploadFileSettled(n) ==
    /\ n \in DOMAIN uploadPromises
    /\ uploadPromises[n].at = "uploadFile"
    /\ LET s == uploadPromises[n].slot
           pw == uploadPromises[n].password
       IN /\ cpc[s] = "settled"
          /\ xfer[s].by = "handleFileUpload"
          /\ xfer[s].filePath = uploadPromises[n].filePath
          /\ uploadPromises' = [uploadPromises EXCEPT ![n] =
                IF result[s].state = "resolved" /\ ~BtoaThrows(pw) THEN [@ EXCEPT !.at = "insert"]
                ELSE SettledAs(@, "rejected")]
          /\ cpc' = Set(cpc, s, "idle")
    /\ UNCHANGED <<xfer, progressLog, result, reader, outbox, inbox, net, serving>>
    /\ UNCHANGED <<proxyAll, rows, toast, downloadPage>>
    /\ UNCHANGED <<uhpc, selectedFiles, uploading, uploadProgress, listed>>

\* the inserts of the page that succeeded
Inserted == {n \in DOMAIN uploadPromises : uploadPromises[n].at = "fulfilled"}

\* the id the table gives the row it inserts (fileData has none): one no row
\* had before, here the number of the insert, above the ids of the rows of
\* the table
FreshRowId ==
    LET taken == {rows[n].id : n \in DOMAIN rows} \cup {Cardinality(Inserted)}
    IN 1 + CHOOSE id \in taken : \A other \in taken : other <= id

\* Dashboard.tsx:237-256  the row of the n-th promise
FileData(n) ==
    LET t == uploadPromises[n]
    IN [id |-> FreshRowId, filename |-> t.file.name, storage_path |-> t.filePath,
        download_count |-> 0,
        password_hash |-> IF t.password = <<>> THEN <<>> ELSE Btoa(t.password),
        expires_at |-> t.expires_at, batch_id |-> t.batch_id]

\* Dashboard.tsx:251-256  the insert of the n-th row returned
UploadInserted(n) ==
    /\ n \in DOMAIN uploadPromises
    /\ uploadPromises[n].at = "insert"
    /\ \E ok \in BOOLEAN :
          IF ok
          THEN /\ rows' = Append(rows, FileData(n))
               /\ uploadPromises' = [uploadPromises EXCEPT ![n] = SettledAs(@, "fulfilled")]
          ELSE /\ uploadPromises' = [uploadPromises EXCEPT ![n] = SettledAs(@, "rejected")]
               /\ UNCHANGED rows
    /\ UNCHANGED <<proxyAll, agentVars, toast, downloadPage>>
    /\ UNCHANGED <<uhpc, selectedFiles, uploading, uploadProgress, listed>>

\* Dashboard.tsx:259-278  Promise.all settled: rejected with the first
\* rejection, fulfilled when every file is
UploadAllSettled ==
    /\ uhpc = "all"
    /\ IF \E n \in Current : uploadPromises[n].at = "rejected"
       THEN /\ toast' = "Upload failed"
            /\ uploading' = FALSE
            /\ uploadProgress' = EmptyMap
            /\ uhpc' = "idle"
       ELSE /\ \A n \in Current : uploadPromises[n].at = "fulfilled"
            /\ toast' = "Success"
            /\ uhpc' = "refresh"
            /\ UNCHANGED <<uploading, uploadProgress>>
    /\ UNCHANGED <<proxyAll, agentVars, rows, downloadPage, selectedFiles, uploadPromises>>
    /\ UNCHANGED listed

\* .order('upload_date', { ascending: false }): upload_date is set by the
\* table when a row is inserted and `rows` is held in the order of the
\* inserts, so the newest row is the last of `rows` and the first selected
NewestFirst(rs) == [n \in DOMAIN rs |-> rs[Len(rs) + 1 - n]]

\* Dashboard.tsx:131-186  the select of loadFiles returned: the rows are
\* listed, newest first, or its failure is shown
LoadFilesReturned ==
    \/ /\ listed' = NewestFirst(rows)
       /\ UNCHANGED toast
    \/ /\ toast' = "Error"
       /\ UNCHANGED listed

\* Dashboard.tsx:266  loadFiles returned; calculateStorage is awaited next
UploadRefreshed ==
    /\ uhpc = "refresh"
    /\ LoadFilesReturned
    /\ uhpc' = "calculateStorage"
    /\ UNCHANGED <<proxyAll, agentVars, rows, downloadPage>>
    /\ UNCHANGED <<selectedFiles, uploadPromises, uploading, uploadProgress>>

\* Dashboard.tsx:114-129 and 267-278  calculateStorage returned (its failure
\* is logged and no more): the handler ends
UploadStorageCalculated ==
    /\ uhpc = "calculateStorage"
    /\ uploading' = FALSE
    /\ uploadProgress' = EmptyMap
    /\ uhpc' = "idle"
    /\ UNCHANGED <<proxyAll, agentVars, rows, toast, downloadPage>>
    /\ UNCHANGED <<selectedFiles, uploadPromises, listed>>

\* ------------------------------------------------------------------------
\* The older Dashboard (src/unnamed/part_001): the files go to the bucket
\* 'files' of supabase.storage, no limit of a plan is looked at and the row
\* has neither expires_at nor password_hash
\* ------------------------------------------------------------------------

olderRest == <<store, versioned, nextVid, pageSize, env, holderVars, pairVars,
               enc, recipientVars, batchVars, clickVars, deleteVars, proxyVars,
               agentVars, downloadPage, lpc, loadKey, notFound, job>>

\* part_001:145-181  a selection: every upload is started, then await
\* Promise.all
OlderHandleFileUpload ==
    /\ uhpc = "idle"
    /\ \E files \in Selections :
          LET made == Len(uploadPromises)
              batchId == IF Len(files) > 1 THEN made + 1 ELSE 0
          IN /\ Len(rows) + Len(files) <= MaxRows
             /\ made + Len(files) <= Len(AllKeys)
             /\ selectedFiles' = files
             /\ uploadPromises' = uploadPromises \o
                   [n \in DOMAIN files |->
                       [at |-> "storage", slot |-> 0, file |-> files[n],
                        filePath |-> UploadPath(made + n - 1), batch_id |-> batchId,
                        expires_at |-> 0, password |-> <<>>]]
    /\ uploading' = TRUE
    /\ uhpc' = "olderAll"
    /\ UNCHANGED <<olderRest, storage, rows, toast, uploadProgress, listed>>
    /\ UNCHANGED <<dpc, doomed>>

\* part_001:160-164  supabase.storage.from('files').upload of the n-th
\* promise returned: an error rejects the promise
OlderStorageUploaded(n) ==
    /\ n \in DOMAIN uploadPromises
    /\ uploadPromises[n].at = "storage"
    /\ LET t == uploadPromises[n]
       IN \E ok \in BOOLEAN :
             IF ok /\ ~\E o \in storage : o.path = t.filePath
             THEN /\ storage' = storage \cup {[path |-> t.filePath, bytes |-> t.file.bytes]}
                  /\ uploadPromises' = [uploadPromises EXCEPT ![n].at = "olderInsert"]
             ELSE /\ uploadPromises' = [uploadPromises EXCEPT ![n] = SettledAs(@, "rejected")]
                  /\ UNCHANGED storage
    /\ UNCHANGED <<olderRest, rows, toast>>
    /\ UNCHANGED <<dpc, doomed>>
    /\ UNCHANGED <<uhpc, selectedFiles, uploading, uploadProgress, listed>>

\* part_001:167-179  the insert of the n-th row returned: the row of FileData
\* with expires_at and password_hash null
OlderInserted(n) ==
    /\ n \in DOMAIN uploadPromises
    /\ uploadPromises[n].at = "olderInsert"
    /\ \E ok \in BOOLEAN :
          IF ok
          THEN /\ rows' = Append(rows, FileData(n))
               /\ uploadPromises' = [uploadPromises EXCEPT ![n] = SettledAs(@, "fulfilled")]
          ELSE /\ uploadPromises' = [uploadPromises EXCEPT ![n] = SettledAs(@, "rejected")]
               /\ UNCHANGED rows
    /\ UNCHANGED <<olderRest, storage, toast>>
    /\ UNCHANGED <<dpc, doomed>>
    /\ UNCHANGED <<uhpc, selectedFiles, uploading, uploadProgress, listed>>

\* part_001:181-199  Promise.all settled: rejected with the first rejection,
\* fulfilled when every file is
OlderUploadAllSettled ==
    /\ uhpc = "olderAll"
    /\ IF \E n \in Current : uploadPromises[n].at = "rejected"
       THEN /\ toast' = "Upload failed"
            /\ uploading' = FALSE
            /\ uhpc' = "idle"
       ELSE /\ \A n \in Current : uploadPromises[n].at = "fulfilled"
            /\ toast' = "Success"
            /\ uhpc' = "olderRefresh"
            /\ UNCHANGED uploading
    /\ UNCHANGED <<olderRest, storage, rows, selectedFiles, uploadPromises, uploadProgress>>
    /\ UNCHANGED <<dpc, doomed, listed>>

\* part_001:88-143 and 188-199  loadFiles returned: the handler ends
OlderUploadRefreshed ==
    /\ uhpc = "olderRefresh"
    /\ LoadFilesReturned
    /\ uploading' = FALSE
    /\ uhpc' = "idle"
    /\ UNCHANGED <<olderRest, storage, rows, selectedFiles, uploadPromises, uploadProgress>>
    /\ UNCHANGED <<dpc, doomed>>

\* ------------------------------------------------------------------------
\* The callers that delete rows of `files`: loadFile and loadBatch of
\* Download.tsx, deleteSingleFile and deleteFileBatch of Dashboard.tsx, and
\* the cleanup-expired-files function
\* ------------------------------------------------------------------------

\* everything of the proxy and the store but the state of these callers
proxyRest == <<store, versioned, nextVid, pageSize, env, holderVars, pairVars, lateVars, deleteVars,
               proxyVars>>

\* a row of `files`; expires_at and batch_id are 0 when null
Row(id, path, expires_at, batch_id) ==
    [id |-> id, filename |-> "f", storage_path |-> path, download_count |-> 0,
     password_hash |-> <<>>, expires_at |-> expires_at, batch_id |-> batch_id]

\* .delete().eq('id', ...) / .in('id', ...) / .eq('batch_id', ...)
Without(rs, ids) == SelectSeq(rs, LAMBDA r : r.id \notin ids)

\* the filenames of the model, in the order of the comparison of text
Filenames == <<"", "a.txt", "b.txt", "c.txt", "f">>

Rank(name) == CHOOSE n \in DOMAIN Filenames : Filenames[n] = name

\* Download.tsx:109  .order('filename'): ascending; rows of the same filename
\* are left in the order of the table
RECURSIVE OrderByFilename(_)
OrderByFilename(rs) ==
    IF rs = <<>> THEN <<>>
    ELSE LET least == CHOOSE n \in DOMAIN rs :
                         \A m \in DOMAIN rs :
                            \/ Rank(rs[n].filename) < Rank(rs[m].filename)
                            \/ Rank(rs[n].filename) = Rank(rs[m].filename) /\ n <= m
         IN <<rs[least]>> \o
            OrderByFilename([m \in 1..(Len(rs) - 1) |->
                                IF m < least THEN rs[m] ELSE rs[m + 1]])

\* Download.tsx:105-109  the rows of the batch, as the select returns them
BatchRows(batchId) ==
    OrderByFilename(SelectSeq(rows, LAMBDA r : r.batch_id = batchId))

\* Download.tsx:68-91  loadFile: the row is selected; an expired row makes the
\* page show "not found" and its deletion is sent
LoadFile(fileId) ==
    /\ lpc = "idle"
    /\ loadKey = 0
    /\ hpc = "idle"
    /\ loadKey' = fileId
    /\ LET found == {n \in DOMAIN rows : rows[n].id = fileId}
       IN \/ /\ toast' = "Error"
             /\ UNCHANGED <<lpc, notFound, file, requiresPassword>>
          \/ /\ found = {}
             /\ notFound' = TRUE
             /\ UNCHANGED <<lpc, toast, file, requiresPassword>>
          \/ /\ found # {}
             /\ LET data == rows[CHOOSE n \in found : TRUE]
                IN IF Expired(data, now)
                   THEN /\ notFound' = TRUE
                        /\ lpc' = "deleteFile"
                        /\ UNCHANGED <<toast, file, requiresPassword>>
                   ELSE /\ file' = data
                        /\ requiresPassword' = (data.password_hash # <<>>)
                        /\ UNCHANGED <<lpc, notFound, toast>>
    /\ UNCHANGED <<dpc, doomed, job, proxyRest, agentVars, rows, uploadPage>>
    /\ UNCHANGED <<hpc, password, passwordError, downloading, clicked, issued>>
    /\ UNCHANGED downloadProgress

\* Download.tsx:84  the deletion of the expired row returned (its error is
\* not looked at)
LoadFileDeleted ==
    /\ lpc = "deleteFile"
    /\ \E ok \in BOOLEAN :
          rows' = IF ok THEN Without(rows, {loadKey}) ELSE rows
    /\ lpc' = "idle"
    /\ UNCHANGED <<loadKey, notFound, dpc, doomed, job, proxyRest, agentVars>>
    /\ UNCHANGED <<toast, downloadPage, uploadPage>>

\* Download.tsx:103-125  loadBatch: the rows of the batch are selected; when
\* all of them are expired the page shows "not found" and their deletion is
\* sent
LoadBatch(batchId) ==
    /\ lpc = "idle"
    /\ loadKey = 0
    /\ hpc = "idle"
    /\ loadKey' = batchId
    /\ LET data == BatchRows(batchId)
           validFiles == SelectSeq(data, LAMBDA r : ~Expired(r, now))
       IN \/ /\ toast' = "Error"
             /\ UNCHANGED <<lpc, notFound, pageFiles, requiresPassword>>
          \/ /\ UNCHANGED toast
             /\ IF Len(data) = 0
                THEN notFound' = TRUE /\ UNCHANGED <<lpc, pageFiles, requiresPassword>>
                ELSE IF Len(validFiles) = 0
                THEN /\ notFound' = TRUE
                     /\ lpc' = "deleteBatch"
                     /\ UNCHANGED <<pageFiles, requiresPassword>>
                ELSE /\ pageFiles' = validFiles
                     /\ requiresPassword' =
                            (\E n \in DOMAIN validFiles : validFiles[n].password_hash # <<>>)
                     /\ UNCHANGED <<lpc, notFound>>
    /\ UNCHANGED <<dpc, doomed, job, agentVars, rows, uploadPage>>
    /\ UNCHANGED <<store, versioned, nextVid, pageSize, env, holderVars, pairVars>>
    /\ UNCHANGED <<enc, olderVars, recipientVars, clickVars, bi, zip, unhandled, deleteVars, proxyVars>>
    /\ UNCHANGED <<hpc, file, password, passwordError, downloading, clicked, issued>>
    /\ UNCHANGED downloadProgress

\* Download.tsx:119  the deletion of the rows of the batch returned
LoadBatchDeleted ==
    /\ lpc = "deleteBatch"
    /\ \E ok \in BOOLEAN :
          LET inBatch == {rows[n].id : n \in {m \in DOMAIN rows :
                                                 rows[m].batch_id = loadKey}}
          IN rows' = IF ok THEN Without(rows, inBatch) ELSE rows
    /\ lpc' = "idle"
    /\ UNCHANGED <<loadKey, notFound, dpc, doomed, job, proxyRest, agentVars>>
    /\ UNCHANGED <<toast, downloadPage, uploadPage>>

\* storj.ts:104-111 and 117-124  deleteFile or deleteFiles is called
StartDeleteCall(s, fn, body, by) ==
    /\ cpc' = Set(cpc, s, "invoke")
    /\ xfer' = Set(xfer, s, [NoCall EXCEPT !.fn = fn, !.by = by])
    /\ result' = Set(result, s, Pending)
    /\ Invoke(s, body)
    /\ UNCHANGED <<progressLog, reader, inbox, serving>>

\* storj.ts:113-114 and 126-127  the invoke of deleteFile or deleteFiles
\* resolved
DeleteCallReturned(s) ==
    /\ cpc[s] = "invoke"
    /\ xfer[s].fn \in {"deleteFile", "deleteFiles"}
    /\ net[s] = "replied"
    /\ Settle(s, IF inbox[s].error THEN Rejected("FunctionsError")
                 ELSE IF ~Success(inbox[s].data) THEN Rejected("Delete failed")
                 ELSE Resolved(Void))
    /\ UNCHANGED <<xfer, progressLog, reader, outbox, inbox, serving>>
    /\ UNCHANGED <<proxyAll, pageVars>>

\* the calls of deleteSingleFile and deleteFileBatch that may run at once: the
\* buttons are never disabled (Dashboard.tsx:576 and 617)
MaxDeletes == 2

Deleters == 1..MaxDeletes

NoDelete == [slot |-> 0, files |-> <<>>]

\* the calls that have not begun or are over
IdleDeleters == {k \in Deleters : dpc[k] = "idle"}

\* the call a click begins
NextDeleter == CHOOSE k \in IdleDeleters : \A j \in IdleDeleters : k <= j

\* Dashboard.tsx:143-174  the batch of the page with the n-th listed file:
\* the listed files of its batch_id, or the file by itself when it has none
BatchOf(n) ==
    IF listed[n].batch_id = 0 THEN <<listed[n]>>
    ELSE SelectSeq(listed, LAMBDA r : r.batch_id = listed[n].batch_id)

\* the n-th listed file is the first of its batch
FirstOfBatch(n) == n \in DOMAIN listed /\ BatchOf(n)[1] = listed[n]

\* Dashboard.tsx:339-341, 550 and 570-576  deleteSingleFile(file), up to the
\* await of deleteFile: the button of a listed file of a batch of several
\* files, the row as loadFiles read it
DeleteSingleFile(n) ==
    /\ n \in DOMAIN listed
    /\ Len(BatchOf(n)) > 1
    /\ IdleDeleters # {}
    /\ FreeSlots # {}
    /\ doomed' = [doomed EXCEPT ![NextDeleter] = [slot |-> FreeSlot, files |-> <<listed[n]>>]]
    /\ StartDeleteCall(FreeSlot, "deleteFile",
                       Req("delete", listed[n].storage_path, <<>>, <<>>, "", ""),
                       "deleteSingleFile")
    /\ dpc' = [dpc EXCEPT ![NextDeleter] = "storj"]
    /\ UNCHANGED <<lpc, loadKey, notFound, job, proxyRest, pageVars>>

\* Dashboard.tsx:310-313 and 617  deleteFileBatch(batch), up to the await of
\* deleteFiles: the button of the batch of the page whose first file is the
\* n-th listed
DeleteFileBatch(n) ==
    /\ FirstOfBatch(n)
    /\ IdleDeleters # {}
    /\ FreeSlots # {}
    /\ LET batch == BatchOf(n)
           storagePaths == [m \in DOMAIN batch |-> batch[m].storage_path]
       IN /\ StartDeleteCall(FreeSlot, "deleteFiles",
                             Req("delete-multiple", Undefined, storagePaths, <<>>, "", ""),
                             "deleteFileBatch")
          /\ doomed' = [doomed EXCEPT ![NextDeleter] =
                           [slot |-> FreeSlot, files |-> batch]]
    /\ dpc' = [dpc EXCEPT ![NextDeleter] = "storj"]
    /\ UNCHANGED <<lpc, loadKey, notFound, job, proxyRest, pageVars>>

\* Dashboard.tsx:313-319, 341-345 and 331-337, 356-362  the store deletion of
\* call k settled: the deletion of the rows is sent, or the failure is shown
DeleteSettled(k) ==
    /\ dpc[k] = "storj"
    /\ LET s == doomed[k].slot
       IN /\ cpc[s] = "settled"
          /\ IF result[s].state = "resolved"
             THEN /\ dpc' = [dpc EXCEPT ![k] = "db"]
                  /\ doomed' = [doomed EXCEPT ![k].slot = 0]
                  /\ UNCHANGED toast
             ELSE /\ dpc' = [dpc EXCEPT ![k] = "idle"]
                  /\ doomed' = [doomed EXCEPT ![k] = NoDelete]
                  /\ toast' = "Delete failed"
          /\ cpc' = Set(cpc, s, "idle")
          /\ xfer' = Set(xfer, s, NoCall)
          /\ result' = Set(result, s, Pending)
          /\ outbox' = Set(outbox, s, NoRequest)
          /\ inbox' = Set(inbox, s, NoResult)
    /\ UNCHANGED <<progressLog, reader, net, serving>>
    /\ UNCHANGED <<lpc, loadKey, notFound, job, proxyRest>>
    /\ UNCHANGED <<rows, downloadPage, uploadPage>>

\* Dashboard.tsx:315-337 and 342-362  the deletion of the rows of call k
\* returned: "Success" and loadFiles, or the failure is shown
DeleteRowsReturned(k) ==
    /\ dpc[k] = "db"
    /\ \E ok \in BOOLEAN :
          IF ok
          THEN /\ rows' = Without(rows, {doomed[k].files[n].id : n \in DOMAIN doomed[k].files})
               /\ toast' = "Success"
               /\ dpc' = [dpc EXCEPT ![k] = "loadFiles"]
          ELSE /\ toast' = "Delete failed"
               /\ dpc' = [dpc EXCEPT ![k] = "idle"]
               /\ UNCHANGED rows
    /\ doomed' = [doomed EXCEPT ![k] = NoDelete]
    /\ UNCHANGED <<lpc, loadKey, notFound, job, proxyRest, agentVars>>
    /\ UNCHANGED <<downloadPage, uploadPage>>

\* Dashboard.tsx:328 and 354  the loadFiles of call k returned;
\* calculateStorage is awaited next
DeleteRefreshed(k) ==
    /\ dpc[k] = "loadFiles"
    /\ LoadFilesReturned
    /\ dpc' = [dpc EXCEPT ![k] = "calculateStorage"]
    /\ UNCHANGED <<lpc, loadKey, notFound, doomed, job, proxyRest, agentVars>>
    /\ UNCHANGED <<rows, downloadPage, uhpc, selectedFiles, uploadPromises, uploading>>
    /\ UNCHANGED uploadProgress

\* Dashboard.tsx:329 and 355  the calculateStorage of call k returned: the
\* call is over
DeleteStorageCalculated(k) ==
    /\ dpc[k] = "calculateStorage"
    /\ dpc' = [dpc EXCEPT ![k] = "idle"]
    /\ UNCHANGED <<lpc, loadKey, notFound, doomed, job, proxyRest, agentVars>>
    /\ UNCHANGED pageVars

\* part_001:217-224 and 385  deleteFileBatch(batch) of the older Dashboard, up
\* to the await of supabase.storage's remove
OlderDeleteFileBatch(n) ==
    /\ FirstOfBatch(n)
    /\ IdleDeleters # {}
    /\ doomed' = [doomed EXCEPT ![NextDeleter] = [slot |-> 0, files |-> BatchOf(n)]]
    /\ dpc' = [dpc EXCEPT ![NextDeleter] = "olderStorage"]
    /\ UNCHANGED <<olderRest, storage, rows, toast, uploadPage>>

\* part_001:221-234 and 242-248  the remove returned: the objects of the
\* paths are gone and the deletion of the rows is sent, or the failure is
\* shown
OlderStorageRemoved(k) ==
    /\ dpc[k] = "olderStorage"
    /\ \E ok \in BOOLEAN :
          IF ok
          THEN /\ storage' = {o \in storage :
                                \A n \in DOMAIN doomed[k].files :
                                   o.path # doomed[k].files[n].storage_path}
               /\ dpc' = [dpc EXCEPT ![k] = "olderDb"]
               /\ UNCHANGED <<doomed, toast>>
          ELSE /\ toast' = "Delete failed"
               /\ dpc' = [dpc EXCEPT ![k] = "idle"]
               /\ doomed' = [doomed EXCEPT ![k] = NoDelete]
               /\ UNCHANGED storage
    /\ UNCHANGED <<olderRest, rows, uploadPage>>

\* part_001:228-248  the deletion of the rows returned: "Success" and
\* loadFiles, or the failure is shown
OlderRowsDeleted(k) ==
    /\ dpc[k] = "olderDb"
    /\ \E ok \in BOOLEAN :
          IF ok
          THEN /\ rows' = Without(rows, {doomed[k].files[n].id : n \in DOMAIN doomed[k].files})
               /\ toast' = "Success"
               /\ dpc' = [dpc EXCEPT ![k] = "olderLoadFiles"]
          ELSE /\ toast' = "Delete failed"
               /\ dpc' = [dpc EXCEPT ![k] = "idle"]
               /\ UNCHANGED rows
    /\ doomed' = [doomed EXCEPT ![k] = NoDelete]
    /\ UNCHANGED <<olderRest, storage, uploadPage>>

\* part_001:241  the loadFiles of call k returned: the call is over
OlderDeleteRefreshed(k) ==
    /\ dpc[k] = "olderLoadFiles"
    /\ LoadFilesReturned
    /\ dpc' = [dpc EXCEPT ![k] = "idle"]
    /\ UNCHANGED <<olderRest, storage, rows, doomed>>
    /\ UNCHANGED <<uhpc, selectedFiles, uploadPromises, uploading, uploadProgress>>

\* the slot of the invoke the cleanup function awaits
JobSlot == CHOOSE s \in Slots : xfer[s].by = "cleanup"

\* part_004:79-90 and 121-135  the loop goes to its next file and invokes
\* storj-operations for it, or the run ends
JobNext(s, j) ==
    IF j.i < Len(j.expiredFiles)
    THEN /\ job' = [j EXCEPT !.i = @ + 1, !.pc = "invoke"]
         /\ cpc' = Set(cpc, s, "invoke")
         /\ xfer' = Set(xfer, s, [NoCall EXCEPT !.fn = "invoke", !.by = "cleanup"])
         /\ Invoke(s, Req("delete", j.expiredFiles[j.i + 1].storage_path, <<>>, <<>>,
                          "", ""))
    ELSE /\ job' = [j EXCEPT !.pc = "done"]
         /\ cpc' = Set(cpc, s, "idle")
         /\ xfer' = Set(xfer, s, NoCall)
         /\ net' = Set(net, s, "none")
         /\ outbox' = Set(outbox, s, NoRequest)

\* part_004:42-59  a run of cleanup-expired-files: the expired rows are
\* selected
JobStart ==
    /\ job.pc = "idle"
    /\ FreeSlots # {}
    /\ \/ /\ job' = [job EXCEPT !.pc = "done"]
          /\ UNCHANGED <<cpc, xfer, outbox, net>>
       \/ JobNext(FreeSlot, [job EXCEPT !.expiredFiles =
                                SelectSeq(rows, LAMBDA r : Expired(r, now))])
    /\ inbox' = Set(inbox, FreeSlot, NoResult)
    /\ UNCHANGED <<progressLog, result, reader, serving>>
    /\ UNCHANGED <<lpc, loadKey, notFound, dpc, doomed, proxyRest, pageVars>>

\* mutant: an error of the invoke ends the run
JobInvokedStopsOnError ==
    /\ job.pc = "invoke"
    /\ cpc[JobSlot] = "invoke"
    /\ net[JobSlot] = "replied"
    /\ IF inbox[JobSlot].error
       THEN /\ job' = [job EXCEPT !.failureCount = @ + 1, !.pc = "done"]
            /\ cpc' = Set(cpc, JobSlot, "idle")
            /\ xfer' = Set(xfer, JobSlot, NoCall)
            /\ net' = Set(net, JobSlot, "none")
            /\ outbox' = Set(outbox, JobSlot, NoRequest)
       ELSE /\ job' = [job EXCEPT !.pc = "db"]
            /\ cpc' = Set(cpc, JobSlot, "held")
            /\ net' = Set(net, JobSlot, "none")
            /\ UNCHANGED <<xfer, outbox>>
    /\ UNCHANGED <<progressLog, result, reader, inbox, serving>>
    /\ UNCHANGED <<lpc, loadKey, notFound, dpc, doomed, proxyRest, pageVars>>

\* part_004:84-102 and 113-118  the invoke resolved: on an error the file is
\* counted as failed and the loop continues, otherwise the deletion of the
\* row is sent
JobInvoked ==
    /\ job.pc = "invoke"
    /\ cpc[JobSlot] = "invoke"
    /\ net[JobSlot] = "replied"
    /\ IF inbox[JobSlot].error
       THEN JobNext(JobSlot, [job EXCEPT !.failureCount = @ + 1])
       ELSE /\ job' = [job EXCEPT !.pc = "db"]
            /\ cpc' = Set(cpc, JobSlot, "held")
            /\ net' = Set(net, JobSlot, "none")
            /\ UNCHANGED <<xfer, outbox>>
    /\ UNCHANGED <<progressLog, result, reader, inbox, serving>>
    /\ UNCHANGED <<lpc, loadKey, notFound, dpc, doomed, proxyRest, pageVars>>

\* part_004:98-112  the deletion of the row returned
JobRowDeleted ==
    /\ job.pc = "db"
    /\ \E ok \in BOOLEAN :
          IF ok
          THEN /\ rows' = Without(rows, {job.expiredFiles[job.i].id})
               /\ JobNext(JobSlot, [job EXCEPT !.successCount = @ + 1])
          ELSE /\ UNCHANGED rows
               /\ JobNext(JobSlot, [job EXCEPT !.failureCount = @ + 1])
    /\ UNCHANGED <<progressLog, result, reader, inbox, serving>>
    /\ UNCHANGED <<lpc, loadKey, notFound, dpc, doomed, proxyRest>>
    /\ UNCHANGED <<toast, downloadPage, uploadPage>>

\* ------------------------------------------------------------------------
\* Initial states and requests
\* ------------------------------------------------------------------------

\* a key of a versioned bucket with n versions (ids 1..n) and, newer than them,
\* m delete-markers; of an unversioned bucket: one object without version id
InitObject(isVersioned, n, m) ==
    IF isVersioned
    THEN [ids |-> [j \in 1..(n + m) |-> n + m + 1 - j],
          marks |-> (n + 1)..(n + m),
          data |-> <<>>]
    ELSE IF n > 0 THEN [ids |-> <<NoVersionId>>, marks |-> {}, data |-> <<>>]
    ELSE NoObject

\* shape[k] = <<n, m>> for the default bucket; the other bucket holds one
\* version of KeyA and one of KeyAB
InitStore(isVersioned, shape) ==
    [b \in Buckets |->
        [k \in Keys |->
            IF b = DEFAULT_BUCKET
            THEN InitObject(isVersioned, shape[k][1], shape[k][2])
            ELSE IF k = KeyB THEN NoObject ELSE InitObject(TRUE, 1, 0)]]

Shape(a, ab, b) == [k \in Keys |-> IF k = KeyA THEN a ELSE IF k = KeyAB THEN ab ELSE b]

SmallShapes ==
    {Shape(a, ab, b) : a \in {<<0, 0>>, <<1, 0>>, <<2, 1>>},
                       ab \in {<<0, 0>>, <<1, 1>>},
                       b \in {<<0, 0>>, <<1, 0>>}}

\* around the batch limit and beyond two batches
BigShapes ==
    {Shape(<<n, m>>, <<1, 1>>, <<0, 0>>) :
        n \in {BatchLimit - 1, BatchLimit, BatchLimit + 1, 2 * BatchLimit + 1},
        m \in {0, 1, BatchLimit}}

Configured == [STORJ_ACCESS_KEY_ID |-> "id", STORJ_SECRET_ACCESS_KEY |-> "secret"]

\* the locals of an invocation that has received no request
IdleLocals ==
    [pc |-> "idle", request |-> [method |-> "NONE"], bucketName |-> DEFAULT_BUCKET,
     response |-> NoResponse, key |-> Undefined, fileIdx |-> 0, isTruncated |-> FALSE,
     KeyMarker |-> Undefined, VersionIdMarker |-> NoVersionId, objectsToDelete |-> <<>>,
     batchI |-> 0, buffer |-> <<>>, stream |-> NoStream, calls |-> <<>>,
     batches |-> <<>>]

\* no request has been received
ProxyIdle ==
    /\ nreq = 0
    /\ pc = "idle"
    /\ request = [method |-> "NONE"]
    /\ bucketName = DEFAULT_BUCKET
    /\ response = NoResponse
    /\ key = Undefined
    /\ fileIdx = 0
    /\ isTruncated = FALSE
    /\ KeyMarker = Undefined
    /\ VersionIdMarker = NoVersionId
    /\ objectsToDelete = <<>>
    /\ batchI = 0
    /\ buffer = <<>>
    /\ stream = NoStream
    /\ calls = <<>>
    /\ batches = <<>>
    /\ now = 0
    /\ held = NoUrl
    /\ fetched = [url |-> NoUrl, at |-> 0, status |-> 0, body |-> <<>>]
    /\ parked = IdleLocals
    /\ store0 = store
    /\ lpc = "idle"
    /\ loadKey = 0
    /\ notFound = FALSE
    /\ dpc = [k \in Deleters |-> "idle"]
    /\ doomed = [k \in Deleters |-> NoDelete]
    /\ job = [pc |-> "idle", expiredFiles |-> <<>>, i |-> 0, successCount |-> 0,
              failureCount |-> 0]
    /\ enc = [length |-> 0 - 1, loop |-> <<>>, closing |-> <<>>]
    /\ away = NoRow
    /\ pageFiles = <<>>
    /\ bi = 0
    /\ zip = <<>>
    /\ unhandled = ""
    /\ clickFile = NoRow
    /\ earlier = <<>>
    /\ storage = {}

ProxyInit(shapes, sizes, envs) ==
    /\ \E isVersioned \in BOOLEAN, shape \in shapes :
          /\ versioned = [b \in Buckets |-> IF b = DEFAULT_BUCKET THEN isVersioned ELSE TRUE]
          /\ store = InitStore(isVersioned, shape)
          /\ nextVid = 2 + shape[KeyA][1] + shape[KeyA][2]
                         + shape[KeyAB][1] + shape[KeyAB][2]
                         + shape[KeyB][1] + shape[KeyB][2]
    /\ pageSize \in sizes
    /\ env \in envs
    /\ ProxyIdle

\* no call of storjService is in progress
AgentIdle ==
    /\ cpc = [s \in Slots |-> "idle"]
    /\ xfer = [s \in Slots |-> NoCall]
    /\ progressLog = [s \in Slots |-> <<>>]
    /\ result = [s \in Slots |-> Pending]
    /\ reader = [s \in Slots |-> NoReader]
    /\ outbox = [s \in Slots |-> NoRequest]
    /\ inbox = [s \in Slots |-> NoResult]
    /\ net = [s \in Slots |-> "none"]
    /\ serving = 0

\* the download page after loadFile has shown row f, with pw typed in
DownloadPageInit(f, pw) ==
    /\ hpc = "idle"
    /\ file = f
    /\ requiresPassword = (f.password_hash # <<>>)
    /\ password = pw
    /\ passwordError = FALSE
    /\ downloading = FALSE
    /\ downloadProgress = 0
    /\ clicked = NoClick
    /\ issued = <<>>

\* the dashboard with no handler running and the rows fs listed
UploadPageListing(fs) ==
    /\ uhpc = "idle"
    /\ selectedFiles = <<>>
    /\ uploadPromises = <<>>
    /\ uploading = FALSE
    /\ uploadProgress = EmptyMap
    /\ listed = fs

UploadPageInit == UploadPageListing(<<>>)

ClientIdle ==
    /\ AgentIdle
    /\ rows = <<>>
    /\ toast = ""
    /\ DownloadPageInit(NoRow, <<>>)
    /\ UploadPageInit

FileLists == {<<>>, <<KeyA>>, <<KeyA, KeyB>>, <<KeyAB, KeyA>>, <<KeyA, KeyA>>,
              <<KeyB, KeyAB, KeyA>>}

DeleteRequests ==
    {Req("delete", k, <<>>, <<>>, "", b) : k \in Keys, b \in {"", AltBucket}}
      \cup {Req("delete-multiple", Undefined, fs, <<>>, "", "") : fs \in FileLists}

ServeDelete == \E r \in DeleteRequests : Serve(r) /\ UNCHANGED clientVars

BigDeleteRequests ==
    {Req("delete", KeyA, <<>>, <<>>, "", "")}
      \cup {Req("delete-multiple", Undefined, fs, <<>>, "", "") :
              fs \in {<<KeyB, KeyA>>, <<KeyA, KeyAB>>}}

ServeBigDelete == \E r \in BigDeleteRequests : Serve(r) /\ UNCHANGED clientVars

vars == <<proxyAll, clientVars>>

\* deletions over small stores, every page size
InitDelete == ProxyInit(SmallShapes, {1, 2, MaxKeys}, {Configured}) /\ ClientIdle
NextDelete == ServeDelete \/ ListPage \/ DeleteUnversioned \/ DeleteBatch \/ DeleteReturned
SpecDelete == InitDelete /\ [][NextDelete]_vars

\* deletions of keys with more entries than one batch takes
InitBigDelete == ProxyInit(BigShapes, {MaxKeys}, {Configured}) /\ ClientIdle
NextBigDelete == ServeBigDelete \/ ListPage \/ DeleteUnversioned \/ DeleteBatch \/ DeleteReturned
SpecBigDelete == InitBigDelete /\ [][NextBigDelete]_vars

\* uploads and downloads of one key, one call at a time
EmptyShape == Shape(<<0, 0>>, <<0, 0>>, <<0, 0>>)
InitTransfer == ProxyInit({EmptyShape}, {MaxKeys}, {Configured}) /\ ClientIdle
NextTransfer ==
    \/ CallUploadFile
    \/ CallLegacyUploadFile
    \/ \E s \in Slots : LegacyUploadEncoded(s)
    \/ \E s \in Slots : LegacyUploadReturned(s)
    \/ CallLegacyDownloadFile
    \/ CallDownloadFile
    \/ \E s \in Slots : DownloadUrlReturned(s)
    \/ \E s \in Slots : FetchResponded(s)
    \/ \E s \in Slots : BlobRead(s)
    \/ \E s \in Slots : ReadChunk(s)
    \/ PresignStep
    \/ \E s \in Slots : UploadEncoded(s)
    \/ \E s \in Slots : Deliver(s)
    \/ \E s \in Slots : Lose(s)
    \/ \E s \in Slots : Reply(s)
    \/ \E s \in Slots : UploadReturned(s)
    \/ \E s \in Slots : LegacyReturned(s)
    \/ \E s \in Slots : TakeResult(s)
    \/ PutStep
    \/ GetStep
    \/ ReadStep
SpecTransfer == InitTransfer /\ [][NextTransfer]_vars

\* the older and the oldest uploadFile and downloadFile with the older handler
NextLegacy ==
    \/ CallLegacyUploadFile
    \/ \E s \in Slots : LegacyUploadEncoded(s)
    \/ \E s \in Slots : LegacyUploadReturned(s)
    \/ CallLegacyDownloadFile
    \/ \E s \in Slots : LegacyReturned(s)
    \/ CallOldestUploadFile
    \/ \E s \in Slots : OldestUploadEncoded(s)
    \/ \E s \in Slots : OldestUploadReturned(s)
    \/ CallOldestDownloadFile
    \/ \E s \in Slots : OldestReturned(s)
    \/ \E s \in Slots : DeliverOlder(s)
    \/ \E s \in Slots : Lose(s)
    \/ \E s \in Slots : Reply(s)
    \/ \E s \in Slots : TakeResult(s)
    \/ OlderPutStep
    \/ OlderGetStep
    \/ OlderReadStep
SpecLegacy == InitTransfer /\ [][NextLegacy]_vars

Unconfigured == [STORJ_ACCESS_KEY_ID |-> "", STORJ_SECRET_ACCESS_KEY |-> "secret"]

DownloadBodies == {<<>>, <<7>>, <<1, 2, 3>>}

\* the download page shows a file whose key the store holds (KeyA) or does
\* not hold (KeyB)
InitDownload ==
    /\ \E isVersioned \in BOOLEAN, body \in DownloadBodies :
          /\ versioned = [b \in Buckets |-> IF b = DEFAULT_BUCKET THEN isVersioned ELSE TRUE]
          /\ store = PutObject(InitStore(isVersioned, EmptyShape), isVersioned,
                               DEFAULT_BUCKET, KeyA, body, "text/plain", 1)
          /\ nextVid = 2
    /\ pageSize = MaxKeys
    /\ env \in {Configured, Unconfigured}
    /\ ProxyIdle
    /\ AgentIdle
    /\ toast = ""
    /\ UploadPageInit
    /\ \E path \in {KeyA, KeyB}, hash \in {<<>>, Btoa(<<112>>)}, pw \in {<<>>, <<112>>} :
          LET row == [id |-> 1, filename |-> "a.txt", storage_path |-> path,
                      download_count |-> 0, password_hash |-> hash, expires_at |-> 0,
                      batch_id |-> 0]
          IN /\ rows = <<row>>
             /\ DownloadPageInit(row, pw)
NextDownload ==
    \/ HandleDownload
    \/ HandleDownloadSettled
    \/ HandleFallbackSettled
    \/ HandleCountUpdated
    \/ HandleReloaded
    \/ \E n \in 1..MaxEarlier : EarlierCountUpdated(n)
    \/ \E n \in 1..MaxEarlier : EarlierReloaded(n)
    \/ \E s \in Slots : Deliver(s)
    \/ \E s \in Slots : Lose(s)
    \/ \E s \in Slots : Reply(s)
    \/ \E s \in Slots : DownloadUrlReturned(s)
    \/ \E s \in Slots : FetchResponded(s)
    \/ \E s \in Slots : BlobRead(s)
    \/ \E s \in Slots : ReadChunk(s)
    \/ \E s \in Slots : GetDownloadUrlReturned(s)
    \/ PresignStep
SpecDownload == InitDownload /\ [][NextDownload]_vars

\* the uploads of one selection run concurrently
InitUpload == ProxyInit({EmptyShape}, {MaxKeys}, {Configured}) /\ ClientIdle
NextUpload ==
    \/ HandleFileUpload
    \/ \E n \in DOMAIN AllKeys : UploadFileSettled(n)
    \/ \E n \in DOMAIN AllKeys : UploadInserted(n)
    \/ UploadAllSettled
    \/ UploadRefreshed
    \/ UploadStorageCalculated
    \/ \E s \in Slots : UploadEncoded(s)
    \/ \E s \in Slots : Deliver(s)
    \/ \E s \in Slots : Lose(s)
    \/ \E s \in Slots : Reply(s)
    \/ \E s \in Slots : UploadReturned(s)
    \/ PutStep
SpecUpload == InitUpload /\ [][NextUpload]_vars

\* the older Dashboard alone
NextOlderUpload ==
    \/ OlderHandleFileUpload
    \/ \E n \in DOMAIN AllKeys : OlderStorageUploaded(n)
    \/ \E n \in DOMAIN AllKeys : OlderInserted(n)
    \/ OlderUploadAllSettled
    \/ OlderUploadRefreshed
    \/ \E n \in 1..MaxRows : OlderDeleteFileBatch(n)
    \/ \E k \in Deleters : OlderStorageRemoved(k)
    \/ \E k \in Deleters : OlderRowsDeleted(k)
    \/ \E k \in Deleters : OlderDeleteRefreshed(k)
SpecOlderUpload == InitUpload /\ [][NextOlderUpload]_vars

\* the secret access key is missing
NoSecret == [STORJ_ACCESS_KEY_ID |-> "id", STORJ_SECRET_ACCESS_KEY |-> ""]

\* operations outside the closed set; "" is a body without `operation`
InvalidOperations == {"rename", ""}

ProxyShapes == {EmptyShape, Shape(<<2, 1>>, <<1, 1>>, <<1, 0>>)}

\* base64 texts: of the bytes 1 2, of no byte, and one that does not decode
Payloads == {Btoa(<<1, 2>>), <<>>, <<33>>}

\* every kind of request the proxy can receive; in a request whose body does
\* not parse, and in a preflight, no field of the body is read
ProxyRequests ==
    {Req("upload", k, <<>>, data, "text/plain", b) :
        k \in {KeyA, KeyB}, data \in Payloads, b \in {"", AltBucket}}
      \cup {Req(op, k, <<>>, <<>>, "", b) :
              op \in {"download", "delete", "get-download-url"}, k \in Keys,
              b \in {"", AltBucket}}
      \cup {Req("delete-multiple", Undefined, fs, <<>>, "", b) :
              fs \in {<<>>, <<KeyA, KeyB>>, <<KeyAB, KeyA>>}, b \in {"", AltBucket}}
      \cup {Req(op, KeyA, <<>>, <<>>, "", b) :
              op \in InvalidOperations, b \in {"", AltBucket}}
      \cup {[Req("", Undefined, <<>>, <<>>, "", "") EXCEPT !.json = FALSE]}
      \cup {[Req("", Undefined, <<>>, <<>>, "", "") EXCEPT !.method = "OPTIONS"]}

ServeAny == \E r \in ProxyRequests : Serve(r) /\ UNCHANGED clientVars

\* every request, with and without credentials
InitProxy ==
    ProxyInit(ProxyShapes, {1, MaxKeys}, {Configured, Unconfigured, NoSecret}) /\ ClientIdle
NextProxy ==
    \/ ServeAny
    \/ ListPage
    \/ DeleteUnversioned
    \/ DeleteBatch
    \/ DeleteReturned
    \/ PutStep
    \/ GetStep
    \/ ReadStep
    \/ PresignStep
SpecProxy == InitProxy /\ [][NextProxy]_vars

ServeOlderAny == \E r \in ProxyRequests : ServeOlder(r) /\ UNCHANGED clientVars

\* every request, to the older handler
NextOlder ==
    \/ ServeOlderAny
    \/ OlderPutStep
    \/ OlderGetStep
    \/ OlderReadStep
    \/ OlderDeleteStep
SpecOlder == InitProxy /\ [][NextOlder]_vars

MaxTime == 1201

NoFetch == [url |-> NoUrl, at |-> 0, status |-> 0, body |-> <<>>]

\* the bytes of a test object name its key, its bucket and the put that wrote it
Tag(k, b, v) == k \o <<IF b = DEFAULT_BUCKET THEN 0 ELSE 1, v>>

holderRest == <<store, versioned, nextVid, pageSize, env, rowsVars, pairVars, lateVars, deleteVars,
                proxyVars, clientVars>>

\* storj.ts:54-61, 131-142  the URL of the answer is handed to its user
KeepUrl ==
    /\ pc = "done"
    /\ request.operation = "get-download-url"
    /\ "url" \in DOMAIN response.body
    /\ held # response.body.url
    /\ held' = response.body.url
    /\ UNCHANGED <<now, fetched, holderRest>>

\* the instants looked at: around the multiples of the lifetime of a URL
Instants == {t \in 0..MaxTime : t % PresignTtl \in {0, 1}}

\* time passes
Tick ==
    /\ \E t \in Instants :
          /\ t > now
          /\ now' = t
    /\ UNCHANGED <<held, fetched, holderRest>>

\* storj.ts:63, Download.tsx:184  a GET of the URL, by whoever holds it
FetchHeld ==
    /\ held # NoUrl
    /\ LET got == PresignedGet(store, held, now)
       IN fetched' = [url |-> held, at |-> now, status |-> got.status, body |-> got.body]
    /\ UNCHANGED <<now, held, holderRest>>

Targets == {<<KeyA, "">>, <<KeyAB, "">>, <<KeyA, AltBucket>>}

PresignRequests ==
    {Req("upload", t[1], <<>>, Btoa(Tag(t[1], ResolveBucket(t[2]), 1)), "text/plain", t[2]) :
        t \in Targets}
      \cup {Req("get-download-url", t[1], <<>>, <<>>, "", t[2]) :
              t \in Targets \cup {<<KeyB, "">>}}

ServePresign == \E r \in PresignRequests : Serve(r) /\ UNCHANGED clientVars

\* both buckets hold KeyA and KeyAB, and nothing under KeyB
InitPresign ==
    /\ \E isVersioned \in BOOLEAN :
          LET v == [b \in Buckets |-> IF b = DEFAULT_BUCKET THEN isVersioned ELSE TRUE]
              s0 == [b \in Buckets |-> [k \in Keys |-> NoObject]]
              put(st, b, k, id) == PutObject(st, v[b], b, k, Tag(k, b, 0), "text/plain", id)
          IN /\ versioned = v
             /\ store = put(put(put(put(s0, DEFAULT_BUCKET, KeyA, 1), DEFAULT_BUCKET,
                                     KeyAB, 2), AltBucket, KeyA, 3), AltBucket, KeyAB, 4)
             /\ nextVid = 5
    /\ pageSize = MaxKeys
    /\ env = Configured
    /\ ProxyIdle
    /\ ClientIdle
NextPresign == ServePresign \/ PutStep \/ PresignStep \/ KeepUrl \/ Tick \/ FetchHeld
SpecPresign == InitPresign /\ [][NextPresign]_vars

\* the expiry of the first row, that of the second, and their batch
RowShapes == {<<-1, 0, 0>>, <<-1, -1, 7>>, <<5, -1, 0>>, <<0, 0, 7>>}

\* two rows for the objects under KeyA and KeyB, alone or in one batch:
\* without an expiry (0), with one that has passed, with one to come
InitRows ==
    /\ \E isVersioned \in BOOLEAN :
          LET v == [b \in Buckets |-> IF b = DEFAULT_BUCKET THEN isVersioned ELSE TRUE]
              s0 == [b \in Buckets |-> [k \in Keys |-> NoObject]]
              put(st, k, id) ==
                  PutObject(st, isVersioned, DEFAULT_BUCKET, k, Tag(k, DEFAULT_BUCKET, 0),
                            "text/plain", id)
          IN /\ versioned = v
             /\ store = put(put(s0, KeyA, 1), KeyB, 2)
             /\ nextVid = 3
    /\ pageSize = MaxKeys
    /\ env = Configured
    /\ ProxyIdle
    /\ AgentIdle
    /\ toast = ""
    /\ DownloadPageInit(NoRow, <<>>)
    /\ \E shape \in RowShapes :
          rows = <<Row(1, KeyA, shape[1], shape[3]), Row(2, KeyB, shape[2], shape[3])>>
    /\ UploadPageListing(NewestFirst(rows))
NextRows ==
    \/ \E fileId \in 1..MaxRows : LoadFile(fileId)
    \/ LoadFileDeleted
    \/ LoadBatch(7)
    \/ LoadBatchDeleted
    \/ JobStart
    \/ JobInvoked
    \/ JobRowDeleted
    \/ \E s \in Slots : Deliver(s)
    \/ \E s \in Slots : Lose(s)
    \/ \E s \in Slots : Reply(s)
    \/ ListPage
    \/ DeleteUnversioned
    \/ DeleteBatch
    \/ DeleteReturned
SpecRows == InitRows /\ [][NextRows]_vars

\* the dashboard that has listed the same rows, a run of
\* cleanup-expired-files, and the proxy
NextDashboard ==
    \/ \E n \in 1..MaxRows : DeleteSingleFile(n)
    \/ \E n \in 1..MaxRows : DeleteFileBatch(n)
    \/ \E k \in Deleters : DeleteSettled(k)
    \/ \E k \in Deleters : DeleteRowsReturned(k)
    \/ \E k \in Deleters : DeleteRefreshed(k)
    \/ \E k \in Deleters : DeleteStorageCalculated(k)
    \/ JobStart
    \/ JobInvoked
    \/ JobRowDeleted
    \/ \E s \in Slots : DeleteCallReturned(s)
    \/ \E s \in Slots : Deliver(s)
    \/ \E s \in Slots : Lose(s)
    \/ \E s \in Slots : Reply(s)
    \/ ListPage
    \/ DeleteUnversioned
    \/ DeleteBatch
    \/ DeleteReturned
SpecDashboard == InitRows /\ [][NextDashboard]_vars

\* a run of cleanup-expired-files over the same rows, and the proxy
NextCleanup ==
    \/ JobStart
    \/ JobInvoked
    \/ JobRowDeleted
    \/ \E s \in Slots : Deliver(s)
    \/ \E s \in Slots : Lose(s)
    \/ \E s \in Slots : Reply(s)
    \/ ListPage
    \/ DeleteUnversioned
    \/ DeleteBatch
    \/ DeleteReturned
SpecCleanup == InitRows /\ [][NextCleanup]_vars

\* the locals of the invocation that is running
Locals ==
    [pc |-> pc, request |-> request, bucketName |-> bucketName, response |-> response,
     key |-> key, fileIdx |-> fileIdx, isTruncated |-> isTruncated,
     KeyMarker |-> KeyMarker, VersionIdMarker |-> VersionIdMarker,
     objectsToDelete |-> objectsToDelete, batchI |-> batchI, buffer |-> buffer,
     stream |-> stream, calls |-> calls, batches |-> batches]

\* index.ts:92  serve() runs one invocation of the handler for every request,
\* each with its own locals; at an await the runtime goes on with the other
\* invocation
Switch ==
    /\ parked' = Locals
    /\ pc' = parked.pc
    /\ request' = parked.request
    /\ bucketName' = parked.bucketName
    /\ response' = parked.response
    /\ key' = parked.key
    /\ fileIdx' = parked.fileIdx
    /\ isTruncated' = parked.isTruncated
    /\ KeyMarker' = parked.KeyMarker
    /\ VersionIdMarker' = parked.VersionIdMarker
    /\ objectsToDelete' = parked.objectsToDelete
    /\ batchI' = parked.batchI
    /\ buffer' = parked.buffer
    /\ stream' = parked.stream
    /\ calls' = parked.calls
    /\ batches' = parked.batches
    /\ UNCHANGED <<store, versioned, nextVid, pageSize, env, holderVars, rowsVars, store0, lateVars>>
    /\ UNCHANGED <<nreq, clientVars>>

\* one operation on one key of the default bucket
KeyRequests(k) ==
    {Req("upload", k, <<>>, Btoa(Tag(k, DEFAULT_BUCKET, 1)), "text/plain", ""),
     Req("download", k, <<>>, <<>>, "", ""),
     Req("delete", k, <<>>, <<>>, "", ""),
     Req("get-download-url", k, <<>>, <<>>, "", "")}

\* a request arrives for an invocation of its own; its key is not the key of
\* the other invocation
ServeOnOtherKey ==
    /\ pc = "idle"
    /\ \E k \in Keys :
          /\ parked.pc # "idle" => parked.request.filePath # k
          /\ \E r \in KeyRequests(k) : Serve(r)
    /\ UNCHANGED clientVars

PairShapes ==
    {Shape(<<2, 1>>, <<1, 1>>, <<1, 0>>), Shape(<<1, 0>>, <<2, 0>>, <<0, 0>>),
     Shape(<<0, 0>>, <<1, 0>>, <<0, 1>>)}

\* two invocations on different keys, one of which may be a prefix of the other
InitPair == ProxyInit(PairShapes, {1, MaxKeys}, {Configured}) /\ ClientIdle
NextPair ==
    \/ ServeOnOtherKey
    \/ Switch
    \/ ListPage
    \/ DeleteUnversioned
    \/ DeleteBatch
    \/ DeleteReturned
    \/ PutStep
    \/ GetStep
    \/ ReadStep
    \/ PresignStep
SpecPair == InitPair /\ [][NextPair]_vars

\* the pairs a listing may accumulate, and the calls a request may have
\* recorded, for the store to give one more page without markers
MaxAccumulated == 4
MaxLogged == 6

\* a page flagged as truncated that carries no next markers
UnmarkedPage(list) ==
    [list EXCEPT !.IsTruncated = TRUE, !.NextKeyMarker = Undefined,
                 !.NextVersionIdMarker = NoVersionId]

\* index.ts:50-55  the ListObjectVersionsCommand is sent; the handler waits
AskPage ==
    /\ UNCHANGED clientVars
    /\ pc = "list"
    /\ pc' = "listing"
    /\ UNCHANGED <<storeVars, nreq, request, bucketName, response, buffer, stream, calls, deleteVars>>

\* index.ts:50-70  the page arrives, or the call fails
PageReceived ==
    /\ UNCHANGED clientVars
    /\ pc = "listing"
    /\ UNCHANGED <<storeVars, nreq, request, bucketName, buffer, stream>>
    /\ \E ok \in BOOLEAN :
        IF ~ok
        THEN Throw(Call("ListObjectVersions", key, 0, FALSE)) /\ UNCHANGED deleteVars
        ELSE ListPageGot(ListObjectVersions(store, bucketName, key, KeyMarker,
                                            VersionIdMarker, pageSize), FALSE)

\* index.ts:50-70  the page arrives flagged as truncated, without markers
UnmarkedPageReceived ==
    /\ UNCHANGED clientVars
    /\ pc = "listing"
    /\ Len(objectsToDelete) < MaxAccumulated
    /\ UNCHANGED <<storeVars, nreq, request, bucketName, buffer, stream>>
    /\ LET list == UnmarkedPage(ListObjectVersions(store, bucketName, key, KeyMarker,
                                                   VersionIdMarker, pageSize))
       IN /\ ListPageGot(list, TRUE)
          /\ Len(calls') <= MaxLogged

ListingShapes ==
    {EmptyShape, Shape(<<0, 0>>, <<1, 1>>, <<0, 0>>), Shape(<<2, 1>>, <<1, 1>>, <<1, 0>>)}

ListingRequests ==
    {Req("delete", k, <<>>, <<>>, "", "") : k \in {KeyA, KeyB}}
      \cup {Req("delete-multiple", Undefined, <<KeyA, KeyB>>, <<>>, "", "")}

ServeListing == \E r \in ListingRequests : Serve(r) /\ UNCHANGED clientVars

\* deletions against a store that may answer a listing with any page; every
\* store call returns and the handler goes on when it has
InitListing == ProxyInit(ListingShapes, {1, 2}, {Configured}) /\ ClientIdle
NextListing ==
    \/ ServeListing
    \/ AskPage
    \/ PageReceived
    \/ UnmarkedPageReceived
    \/ DeleteUnversioned
    \/ DeleteBatch
    \/ DeleteReturned
SpecListing ==
    /\ InitListing
    /\ [][NextListing]_vars
    /\ WF_vars(AskPage)
    /\ WF_vars(PageReceived \/ UnmarkedPageReceived)
    /\ WF_vars(DeleteUnversioned)
    /\ WF_vars(DeleteBatch)
    /\ WF_vars(DeleteReturned)

\* the lengths of the streamed objects: none, short, and two of which the
\* hundredth parts are whole numbers of bytes or halves
StreamLengths == {0, 3, 50, 100}

\* streamed downloads of an object of KeyA, the Content-Length header being
\* right, absent, or one short
InitStream ==
    /\ \E length \in StreamLengths :
          /\ versioned = [b \in Buckets |-> TRUE]
          /\ store = PutObject([b \in Buckets |-> [k \in Keys |-> NoObject]], TRUE,
                               DEFAULT_BUCKET, KeyA, Pattern(length), "text/plain", 1)
          /\ nextVid = 2
    /\ pageSize = MaxKeys
    /\ env = Configured
    /\ ProxyIdle
    /\ ClientIdle
NextStream ==
    \/ CallDownloadFile
    \/ \E s \in Slots : DownloadUrlReturned(s)
    \/ \E s \in Slots : FetchResponded(s)
    \/ \E s \in Slots : BlobRead(s)
    \/ \E s \in Slots : ReadChunk(s)
    \/ PresignStep
    \/ \E s \in Slots : Deliver(s)
    \/ \E s \in Slots : Lose(s)
    \/ \E s \in Slots : Reply(s)
    \/ \E s \in Slots : TakeResult(s)
SpecStream == InitStream /\ [][NextStream]_vars

\* everything but the call seen by its encode loop
encRest == <<store, versioned, nextVid, pageSize, env, holderVars, rowsVars, pairVars, recipientVars, clickVars,
             olderVars,
             batchVars,
             deleteVars, proxyVars, clientVars>>

\* ------------------------------------------------------------------------
\* Two recipients of one link: the download page in two browsers
\* ------------------------------------------------------------------------

recipientRest == <<store, versioned, nextVid, pageSize, env, holderVars, dpc, doomed, job,
                   pairVars, enc, olderVars, batchVars, deleteVars, proxyVars, rows,
                   uploadPage>>

\* the state of the page that is acting: the state of its component, and the
\* await at which its call of storjService stands
ThisPage ==
    [hpc |-> hpc, file |-> file, requiresPassword |-> requiresPassword,
     password |-> password, passwordError |-> passwordError,
     downloading |-> downloading, downloadProgress |-> downloadProgress,
     clicked |-> clicked, issued |-> issued, toast |-> toast,
     clickFile |-> clickFile, earlier |-> earlier,
     notFound |-> notFound, lpc |-> lpc, loadKey |-> loadKey,
     cpc |-> [s \in Slots |-> IF xfer[s].by = "handleDownload" THEN cpc[s] ELSE "idle"]]

\* a page that has just been opened and has loaded
LoadedPage(fileId, f, pageNotFound, at, shown) ==
    [hpc |-> "idle", file |-> f, requiresPassword |-> (f.password_hash # <<>>),
     password |-> <<>>, passwordError |-> FALSE,
     downloading |-> FALSE, downloadProgress |-> 0,
     clicked |-> NoClick, issued |-> <<>>, toast |-> shown,
     clickFile |-> NoRow, earlier |-> <<>>,
     notFound |-> pageNotFound, lpc |-> at, loadKey |-> fileId,
     cpc |-> [s \in Slots |-> "idle"]]

\* Download.tsx:44-50 and 68-101  loadFile in the browser of a second
\* recipient, who opened the link of the file the first recipient sees: the
\* select failed, or the row is gone, or it has expired and its deletion is
\* sent, or it is shown
SecondRecipientLoads ==
    /\ away = NoRow
    /\ LET fileId == file.id
           found == {n \in DOMAIN rows : rows[n].id = fileId}
       IN \/ away' = LoadedPage(fileId, NoRow, FALSE, "idle", "Error")
          \/ /\ found = {}
             /\ away' = LoadedPage(fileId, NoRow, TRUE, "idle", "")
          \/ /\ found # {}
             /\ LET data == rows[CHOOSE n \in found : TRUE]
                IN IF Expired(data, now)
                   THEN away' = LoadedPage(fileId, NoRow, TRUE, "deleteFile", "")
                   ELSE away' = LoadedPage(fileId, data, FALSE, "idle", "")
    /\ UNCHANGED <<recipientRest, agentVars, lpc, loadKey, notFound, toast, downloadPage>>
    /\ UNCHANGED clickVars

\* the other recipient acts from here on. The two browsers run side by side:
\* the turn changes at any time, and the call of storjService the page that
\* is left awaits stays at its await until that page acts again, while its
\* request, the proxy and the store go on
SwitchRecipient ==
    /\ away # NoRow
    /\ away' = ThisPage
    /\ cpc' = [s \in Slots |->
                 IF xfer[s].by = "away" THEN away.cpc[s]
                 ELSE IF xfer[s].by = "handleDownload" /\ cpc[s] # "idle" THEN "away"
                 ELSE cpc[s]]
    /\ xfer' = [s \in Slots |->
                  IF xfer[s].by = "away" THEN [xfer[s] EXCEPT !.by = "handleDownload"]
                  ELSE IF xfer[s].by = "handleDownload" THEN [xfer[s] EXCEPT !.by = "away"]
                  ELSE xfer[s]]
    /\ hpc' = away.hpc
    /\ file' = away.file
    /\ requiresPassword' = away.requiresPassword
    /\ password' = away.password
    /\ passwordError' = away.passwordError
    /\ downloading' = away.downloading
    /\ downloadProgress' = away.downloadProgress
    /\ clicked' = away.clicked
    /\ issued' = away.issued
    /\ toast' = away.toast
    /\ clickFile' = away.clickFile
    /\ earlier' = away.earlier
    /\ notFound' = away.notFound
    /\ lpc' = away.lpc
    /\ loadKey' = away.loadKey
    /\ UNCHANGED <<recipientRest, progressLog, result, reader, outbox, inbox, net, serving>>

\* one unprotected file of one byte under KeyA, shown to the first recipient
InitRecipients ==
    /\ versioned = [b \in Buckets |-> TRUE]
    /\ store = PutObject(InitStore(TRUE, EmptyShape), TRUE, DEFAULT_BUCKET, KeyA, <<7>>,
                         "text/plain", 1)
    /\ nextVid = 2
    /\ pageSize = MaxKeys
    /\ env = Configured
    /\ ProxyIdle
    /\ AgentIdle
    /\ toast = ""
    /\ UploadPageInit
    /\ LET row == [id |-> 1, filename |-> "a.txt", storage_path |-> KeyA,
                   download_count |-> 0, password_hash |-> <<>>, expires_at |-> 0,
                   batch_id |-> 0]
       IN /\ rows = <<row>>
          /\ DownloadPageInit(row, <<>>)
NextRecipients ==
    \/ SecondRecipientLoads
    \/ SwitchRecipient
    \/ HandleDownload
    \/ HandleDownloadSettled
    \/ HandleFallbackSettled
    \/ HandleCountUpdated
    \/ HandleReloaded
    \/ \E n \in 1..MaxEarlier : EarlierCountUpdated(n)
    \/ \E n \in 1..MaxEarlier : EarlierReloaded(n)
    \/ \E s \in Slots : Deliver(s)
    \/ \E s \in Slots : Lose(s)
    \/ \E s \in Slots : Reply(s)
    \/ \E s \in Slots : DownloadUrlReturned(s)
    \/ \E s \in Slots : FetchResponded(s)
    \/ \E s \in Slots : BlobRead(s)
    \/ \E s \in Slots : ReadChunk(s)
    \/ \E s \in Slots : GetDownloadUrlReturned(s)
    \/ PresignStep
SpecRecipients == InitRecipients /\ [][NextRecipients]_vars

\* ------------------------------------------------------------------------
\* The download page of a batch: handleBatchDownload of src/pages/Download.tsx,
\* and the page of a link over time
\* ------------------------------------------------------------------------

batchRest == <<store, versioned, nextVid, pageSize, env, holderVars, pairVars, enc,
               olderVars, recipientVars, clickVars, deleteVars, proxyVars>>

\* the slot of the call handleBatchDownload awaits
BatchSlot == CHOOSE s \in Slots : xfer[s].by = "handleBatchDownload"

\* JSZip: zip.file(name, data) adds the entry, or replaces the one of that name
ZipFile(z, name, data) ==
    IF \E n \in DOMAIN z : z[n].name = name
    THEN [n \in DOMAIN z |-> IF z[n].name = name THEN [name |-> name, data |-> data]
                            ELSE z[n]]
    ELSE Append(z, [name |-> name, data |-> data])

\* Download.tsx:207-237 and 459  the click on "Download All Files", up to the
\* await of the first downloadFile; the button is enabled while `downloading`
\* is false and no password is required or one is typed
HandleBatchDownload ==
    /\ hpc = "idle"
    /\ ~PasswordMissing
    /\ pageFiles # <<>>
    /\ ~notFound
    /\ \A n \in DOMAIN pageFiles : pageFiles[n].download_count < MaxDownloads
    /\ FreeSlots # {}
    /\ IF requiresPassword /\ \E n \in DOMAIN pageFiles : VerifyThrows(pageFiles[n])
       THEN /\ unhandled' = "InvalidCharacterError"
            /\ UNCHANGED <<agentVars, hpc, downloading, downloadProgress, clicked, issued,
                           passwordError, toast, bi, zip>>
       ELSE IF requiresPassword /\ ~(\A n \in DOMAIN pageFiles : verifyPassword(pageFiles[n]))
       THEN /\ passwordError' = TRUE
            /\ toast' = "Incorrect password"
            /\ UNCHANGED <<agentVars, hpc, downloading, downloadProgress, clicked, issued>>
            /\ UNCHANGED <<unhandled, bi, zip>>
       ELSE /\ downloading' = TRUE
            /\ zip' = <<>>
            /\ bi' = 0
            /\ downloadProgress' = FileProgress(0, Len(pageFiles))
            /\ StartDownloadFile(FreeSlot, pageFiles[1].storage_path, "",
                                 "handleBatchDownload")
            /\ hpc' = "batchDownloadFile"
            /\ clicked' = NoClick
            /\ issued' = <<outbox'[FreeSlot].operation>>
            /\ UNCHANGED <<passwordError, toast, unhandled>>
    /\ UNCHANGED <<batchRest, rowsVars, pageFiles>>
    /\ UNCHANGED <<rows, file, requiresPassword, password, uploadPage>>

\* Download.tsx:229-242 and 269-278  a downloadFile of the loop settled: the
\* blob is added to the archive and the next file is asked for, or, after
\* the last file, zip.generateAsync is awaited; a failure ends the handler
BatchFileSettled ==
    /\ hpc = "batchDownloadFile"
    /\ cpc[BatchSlot] = "settled"
    /\ LET s == BatchSlot
           n == Len(pageFiles)
       IN IF result[s].state = "resolved"
          THEN /\ zip' = ZipFile(zip, pageFiles[bi + 1].filename, result[s].value)
               /\ IF bi + 1 < n
                  THEN /\ bi' = bi + 1
                       /\ downloadProgress' = FileProgress(bi + 1, n)
                       /\ StartDownloadFile(s, pageFiles[bi + 2].storage_path, "",
                                            "handleBatchDownload")
                       /\ issued' = Append(issued, outbox'[s].operation)
                       /\ UNCHANGED <<hpc, clicked, downloading, toast>>
                  ELSE /\ bi' = 0
                       /\ downloadProgress' = 85
                       /\ hpc' = "generateAsync"
                       /\ cpc' = Set(cpc, s, "idle")
                       /\ UNCHANGED <<xfer, progressLog, result, reader, outbox, inbox>>
                       /\ UNCHANGED <<net, serving, issued, downloading, toast, clicked>>
          ELSE /\ toast' = "Download failed"
               /\ downloading' = FALSE
               /\ downloadProgress' = 0
               /\ hpc' = "idle"
               /\ cpc' = Set(cpc, s, "idle")
               /\ UNCHANGED <<xfer, progressLog, result, reader, outbox, inbox, net>>
               /\ UNCHANGED <<serving, issued, clicked, bi, zip>>
    /\ UNCHANGED <<batchRest, rowsVars, pageFiles, unhandled>>
    /\ UNCHANGED <<rows, file, requiresPassword, password, passwordError, uploadPage>>

\* Download.tsx:242-252 and 269-278  zip.generateAsync settled: the archive
\* is saved and the count updates begin, or its failure ends the handler
BatchZipGenerated ==
    /\ hpc = "generateAsync"
    /\ \/ /\ downloadProgress' = 95
          /\ clicked' = [NoClick EXCEPT !.kind = "zip"]
          /\ hpc' = "batchUpdate"
          /\ UNCHANGED <<downloading, toast>>
       \/ /\ toast' = "Download failed"
          /\ downloading' = FALSE
          /\ downloadProgress' = 0
          /\ hpc' = "idle"
          /\ UNCHANGED clicked
    /\ UNCHANGED <<batchRest, rowsVars, pageFiles, bi, zip, unhandled, agentVars>>
    /\ UNCHANGED <<rows, file, requiresPassword, password, passwordError, issued, uploadPage>>

\* Download.tsx:254-266  the update of the download_count of a file of the
\* batch returned (its error is not looked at); after the last, loadBatch
BatchCountUpdated ==
    /\ hpc = "batchUpdate"
    /\ LET f == pageFiles[bi + 1]
       IN \E ok \in BOOLEAN :
             rows' = IF ok THEN UpdateRow(rows, f.id, f.download_count + 1) ELSE rows
    /\ IF bi + 1 < Len(pageFiles)
       THEN /\ bi' = bi + 1
            /\ UNCHANGED <<hpc, downloadProgress, toast>>
       ELSE /\ bi' = 0
            /\ downloadProgress' = 100
            /\ toast' = "Download complete"
            /\ hpc' = "loadBatch"
    /\ UNCHANGED <<batchRest, rowsVars, pageFiles, zip, unhandled, agentVars>>
    /\ UNCHANGED <<file, requiresPassword, password, passwordError>>
    /\ UNCHANGED <<downloading, clicked, issued, uploadPage>>

\* Download.tsx:275-278  the finally of handleBatchDownload
BatchEnds ==
    /\ downloading' = FALSE
    /\ downloadProgress' = 0
    /\ hpc' = "idle"

\* Download.tsx:103-125 and 268-278  the select of the loadBatch that
\* handleBatchDownload awaits returned: after a failure, and when no row is
\* left, loadBatch returns and the handler ends; when every row has expired
\* the deletion of the rows is awaited, otherwise checkUploaderPlan is
BatchReloaded ==
    /\ hpc = "loadBatch"
    /\ LET batchId == pageFiles[1].batch_id
           data == BatchRows(batchId)
           validFiles == SelectSeq(data, LAMBDA r : ~Expired(r, now))
       IN \/ /\ toast' = "Error"
             /\ BatchEnds
             /\ UNCHANGED <<loadKey, notFound, pageFiles, requiresPassword>>
          \/ /\ UNCHANGED toast
             /\ IF Len(data) = 0
                THEN /\ notFound' = TRUE
                     /\ BatchEnds
                     /\ UNCHANGED <<loadKey, pageFiles, requiresPassword>>
                ELSE IF Len(validFiles) = 0
                THEN /\ notFound' = TRUE
                     /\ loadKey' = batchId
                     /\ hpc' = "loadBatchDelete"
                     /\ UNCHANGED <<pageFiles, requiresPassword>>
                     /\ UNCHANGED <<downloading, downloadProgress>>
                ELSE /\ pageFiles' = validFiles
                     /\ requiresPassword' =
                            (\E n \in DOMAIN validFiles : validFiles[n].password_hash # <<>>)
                     /\ hpc' = "checkUploaderPlan"
                     /\ UNCHANGED <<loadKey, notFound>>
                     /\ UNCHANGED <<downloading, downloadProgress>>
    /\ UNCHANGED <<batchRest, lpc, dpc, doomed, job, bi, zip, unhandled, agentVars, rows>>
    /\ UNCHANGED <<file, password, passwordError, clicked, issued, uploadPage>>

\* Download.tsx:118-120 and 275-278  the deletion of the expired rows of the
\* batch returned (its error is not looked at): loadBatch returns and the
\* handler ends
BatchExpiredDeleted ==
    /\ hpc = "loadBatchDelete"
    /\ \E ok \in BOOLEAN :
          LET inBatch == {rows[n].id : n \in {m \in DOMAIN rows :
                                                 rows[m].batch_id = loadKey}}
          IN rows' = IF ok THEN Without(rows, inBatch) ELSE rows
    /\ BatchEnds
    /\ UNCHANGED <<batchRest, rowsVars, pageFiles, bi, zip, unhandled, agentVars, toast>>
    /\ UNCHANGED <<file, requiresPassword, password, passwordError, clicked, issued>>
    /\ UNCHANGED uploadPage

\* Download.tsx:52-66, 124 and 275-278  checkUploaderPlan returned (the plan
\* is no state of the model; its failure is logged and no more): loadBatch
\* returns and the handler ends
BatchPlanChecked ==
    /\ hpc = "checkUploaderPlan"
    /\ BatchEnds
    /\ UNCHANGED <<batchRest, rowsVars, pageFiles, bi, zip, unhandled, agentVars, toast>>
    /\ UNCHANGED <<rows, file, requiresPassword, password, passwordError, clicked, issued>>
    /\ UNCHANGED uploadPage

\* the passwords typed into the page: that of the uploader, another one, and
\* one with a code unit above 255 (the euro sign)
Passwords == {<<112>>, <<113>>, <<8364>>}

\* Download.tsx:308, 407-417 and 499-509  the password field changes; the
\* field is there when the page shows a file or a batch that requires a
\* password
TypePassword(pw) ==
    /\ requiresPassword
    /\ ~notFound
    /\ file # NoRow \/ pageFiles # <<>>
    /\ password # pw
    /\ password' = pw
    /\ passwordError' = FALSE
    /\ UNCHANGED <<proxyAll, agentVars, rows, toast, uploadPage>>
    /\ UNCHANGED <<hpc, file, requiresPassword, downloading, downloadProgress, clicked, issued>>

\* the link of a file or of a batch of two: <<hash of the first, hash of the
\* second, expires_at of the first, expires_at of the second>>; an expires_at
\* of 0 is null, the others are instants of the clock (1 and Instants' 600)
LinkShapes ==
    {<<<<>>, <<>>, 0, 0>>,
     <<Btoa(<<112>>), <<>>, 0, 0>>,
     <<Btoa(<<112>>), Btoa(<<112>>), 0, PresignTtl>>,
     <<<<>>, <<>>, PresignTtl, PresignTtl>>,
     <<<<>>, <<>>, 1, PresignTtl>>}

\* time passes, up to the instant after the last expires_at of LinkShapes
LinkTick ==
    /\ now <= PresignTtl
    /\ Tick
    /\ now' <= PresignTtl + 1

LinkRow(id, name, path, hash, expires_at) ==
    [id |-> id, filename |-> name, storage_path |-> path, download_count |-> 0,
     password_hash |-> hash, expires_at |-> expires_at, batch_id |-> 7]

InitLink ==
    /\ versioned = [b \in Buckets |-> TRUE]
    /\ store = PutObject(PutObject([b \in Buckets |-> [k \in Keys |-> NoObject]], TRUE,
                                   DEFAULT_BUCKET, KeyA, <<7>>, "text/plain", 1),
                         TRUE, DEFAULT_BUCKET, KeyB, <<8>>, "text/plain", 2)
    /\ nextVid = 3
    /\ pageSize = MaxKeys
    /\ env = Configured
    /\ ProxyIdle
    /\ AgentIdle
    /\ toast = ""
    /\ DownloadPageInit(NoRow, <<>>)
    /\ UploadPageInit
    /\ \E shape \in LinkShapes :
          rows = <<LinkRow(2, "b.txt", KeyB, shape[2], shape[4]),
                   LinkRow(1, "a.txt", KeyA, shape[1], shape[3])>>
NextLink ==
    \/ LoadFile(1)
    \/ LoadFileDeleted
    \/ LoadBatch(7)
    \/ LoadBatchDeleted
    \/ \E pw \in Passwords : TypePassword(pw)
    \/ LinkTick
    \/ HandleDownload
    \/ HandleDownloadSettled
    \/ HandleFallbackSettled
    \/ HandleCountUpdated
    \/ HandleReloaded
    \/ \E n \in 1..MaxEarlier : EarlierCountUpdated(n)
    \/ \E n \in 1..MaxEarlier : EarlierReloaded(n)
    \/ HandleBatchDownload
    \/ BatchFileSettled
    \/ BatchZipGenerated
    \/ BatchCountUpdated
    \/ BatchReloaded
    \/ BatchExpiredDeleted
    \/ BatchPlanChecked
    \/ \E s \in Slots : Deliver(s)
    \/ \E s \in Slots : Lose(s)
    \/ \E s \in Slots : Reply(s)
    \/ \E s \in Slots : DownloadUrlReturned(s)
    \/ \E s \in Slots : FetchResponded(s)
    \/ \E s \in Slots : BlobRead(s)
    \/ \E s \in Slots : ReadChunk(s)
    \/ \E s \in Slots : GetDownloadUrlReturned(s)
    \/ PresignStep
SpecLink == InitLink /\ [][NextLink]_vars

\* the files of SpecEncode have up to this many windows of chunkSize bytes
MaxWindows == 40

NoEncode == [length |-> 0 - 1, loop |-> <<>>, closing |-> <<>>]

\* no byte, less than a window, whole windows, and a byte less and more
EncodeLengths ==
    {0, 1, 2, 3}
      \cup {n * chunkSize + d : n \in 1..MaxWindows, d \in {0 - 1, 0, 1}}

\* storj.ts:7-31  uploadFile up to its invoke, for a file of `length` bytes:
\* what the loop reports, and the report of the end of the conversion
EncodeFile ==
    /\ enc = NoEncode
    /\ \E length \in EncodeLengths :
          enc' = [length |-> length, loop |-> EncodeReports(length), closing |-> <<50>>]
    /\ UNCHANGED encRest

\* the call is over
EncodeForgotten ==
    /\ enc # NoEncode
    /\ enc' = NoEncode
    /\ UNCHANGED encRest

\* the files of SpecLegacyEncode have up to this many windows of
\* legacyChunkSize bytes
MaxLegacyWindows == 3

\* storj.ts:148-166  the older uploadFile up to its invoke, for a file of
\* `length` bytes
LegacyEncodeFile ==
    /\ enc = NoEncode
    /\ \E length \in {1, 2, 2000}
                      \cup {n * legacyChunkSize + d : n \in 1..MaxLegacyWindows,
                                                      d \in {0 - 1, 0, 1}} :
          enc' = [length |-> length, loop |-> LegacyEncodeReports(length),
                  closing |-> <<50>>]
    /\ UNCHANGED encRest

\* the encode phase of uploadFile for files of every length
InitEncode == ProxyInit({EmptyShape}, {MaxKeys}, {Configured}) /\ ClientIdle
NextEncode == EncodeFile \/ EncodeForgotten
SpecEncode == InitEncode /\ [][NextEncode]_vars

\* the encode phase of the older uploadFile
NextLegacyEncode == LegacyEncodeFile \/ EncodeForgotten
SpecLegacyEncode == InitEncode /\ [][NextLegacyEncode]_vars


\* ------------------------------------------------------------------------
\* Properties of the deletion
\* ------------------------------------------------------------------------

Finished(operation) ==
    pc = "done" /\ request.method = "POST" /\ request.json /\ request.operation = operation

FailedCalls == {n \in DOMAIN calls : ~calls[n].ok}

\* a later version listing of key k returns nothing, and a get of k finds nothing
FullyDeleted(b, k) ==
    /\ EntriesOf(store, b, k) = <<>>
    /\ ~GetObject(store, b, k).found

\* C1 (as claimed): whenever `delete` of a key reports success, a later version
\* listing of the key returns no version and no delete-marker and a get of it
\* fails as not found.
C1_SuccessfulDeleteLeavesNothing ==
    (Finished("delete") /\ response = SuccessResponse)
        => FullyDeleted(bucketName, request.filePath)

\* C1, the part the code keeps: when the listing found something to delete, or
\* the bucket keeps no versions, a successful `delete` leaves nothing.
C1_HoldsWhenSomethingListed ==
    (Finished("delete") /\ response = SuccessResponse
        /\ (objectsToDelete # <<>> \/ ~versioned[bucketName]))
        => FullyDeleted(bucketName, request.filePath)

\* C2: every batch sent by a deletion carries at most 1000 pairs, and the
\* batches sent so far are, in order and without repetition, the first pairs
\* accumulated; when the deletion returns they are all of them.
C2_BatchesPartitionAccumulated ==
    LET sent == Concat(batches)
    IN /\ \A n \in DOMAIN batches : Len(batches[n]) <= BatchLimit
       /\ Len(sent) <= Len(objectsToDelete)
       /\ sent = SubSeq(objectsToDelete, 1, Len(sent))
       /\ Cardinality(Range(sent)) = Len(sent)
       /\ (pc = "returned" /\ objectsToDelete # <<>>) => sent = objectsToDelete

C2_Witness ==
    /\ pc = "returned"
    /\ Len(batches) >= 3
    /\ Len(objectsToDelete) > 2 * BatchLimit
    /\ Len(batches[3]) < BatchLimit

\* C3: a `delete` answers success only if every store call of it succeeded; a
\* failed call is the last call of the request, the answer is then an error,
\* and the pairs of the failed batch and of the batches after it are still in
\* the store.
C3_SuccessOnlyIfEveryCallSucceeded ==
    (request.method = "POST" /\ request.operation = "delete") =>
        /\ (pc = "done" /\ response.status = 200) => FailedCalls = {}
        /\ FailedCalls # {} =>
              /\ FailedCalls = {Len(calls)}
              /\ pc = "done"
              /\ response.status = 500
              /\ "error" \in DOMAIN response.body
              /\ "success" \notin DOMAIN response.body
              /\ LET unsent == {objectsToDelete[n].VersionId :
                                    n \in (batchI + 1)..Len(objectsToDelete)}
                     kept == Range(store[bucketName][key].ids)
                 IN unsent \subseteq kept

C3_Witness ==
    /\ Finished("delete")
    /\ Len(batches) = 2
    /\ calls[Len(calls)].op = "DeleteObjects"
    /\ ~calls[Len(calls)].ok
    /\ Len(objectsToDelete) > 2 * BatchLimit

\* the positions of `files` whose deletion was begun
Attempted == {calls[n].idx : n \in DOMAIN calls}

\* C4 (as claimed): in `delete-multiple` a failure on one key does not stop the
\* keys after it: every key of the list has its deletion attempted, and the
\* call reports failure if any key failed.
C4_EveryKeyAttempted ==
    Finished("delete-multiple") =>
        /\ Attempted = 1..Len(request.files)
        /\ FailedCalls # {} => response.status # 200

\* C4 (amended): a failure while deleting one key of `delete-multiple` ends the
\* request: the failed call is its last store call, the keys after the failed
\* one are not attempted, the keys up to it were taken in list order, and the
\* answer is the error response; without a failure every key is attempted and
\* the answer is success.
C4_FailureAbortsLaterKeys ==
    Finished("delete-multiple") =>
        IF FailedCalls # {}
        THEN /\ FailedCalls = {Len(calls)}
             /\ Attempted = 1..fileIdx
             /\ fileIdx <= Len(request.files)
             /\ \A n \in 1..(Len(calls) - 1) : calls[n].idx <= calls[n + 1].idx
             /\ response.status = 500
             /\ "error" \in DOMAIN response.body
        ELSE /\ Attempted = 1..Len(request.files)
             /\ response = SuccessResponse

C4_Witness ==
    /\ Finished("delete-multiple")
    /\ FailedCalls # {}
    /\ fileIdx = 2
    /\ Len(request.files) = 3

\* C5 (as claimed): when the deletion of the i-th key of `delete-multiple`
\* fails, every key before it in the list is fully deleted (a listing of it
\* returns no version and no delete-marker) and the call reports failure.
C5_EarlierKeysFullyDeleted ==
    (Finished("delete-multiple") /\ FailedCalls # {}) =>
        /\ \A j \in 1..(fileIdx - 1) : FullyDeleted(bucketName, request.files[j])
        /\ response.status # 200

\* ------------------------------------------------------------------------
\* Properties of the transfers
\* ------------------------------------------------------------------------

PutCalls == {n \in DOMAIN calls : calls[n].op = "PutObject"}

\* what uploadFile sends for a content of one or more windows decodes, in the
\* proxy, to the content; what the proxy sends for it decodes, in the legacy
\* downloadFile, to the content
WindowsRoundTrip ==
    \A B \in WindowContents :
        /\ \A fileData \in {Btoa(EncodeFrom(B, 0)) \o <<>>} :
              AtobValid(fileData) /\ base64Decode(fileData) = B
        /\ \A base64 \in {base64Encode(B) \o <<>>} :
              Atob(base64) = B

\* C6: when the proxy answers the `upload` of an uploadFile call with success,
\* it has made exactly one put, under the key and in the bucket of the call,
\* and the object the store now holds there has the bytes and the content type
\* of the file; when a legacy downloadFile resolves, the data of the response
\* decodes to the bytes the store holds under the key, and so does the blob;
\* and the two conversions give back contents of several windows.
C6_UploadThenDownloadRoundTrip ==
    /\ WindowsRoundTrip
    /\ \A s \in Slots :
           /\ (serving = s /\ xfer[s].fn \in {"uploadFile", "legacyUploadFile"}
                   /\ Finished("upload")
                   /\ response = SuccessResponse) =>
                 /\ Len(calls) = 1
                 /\ PutCalls = {1}
                 /\ calls[1].ok
                 /\ calls[1].key = xfer[s].filePath
                 /\ calls[1].bucket = ResolveBucket(xfer[s].bucket)
                 /\ buffer = xfer[s].file.bytes
                 /\ LET got == GetObject(store, bucketName, xfer[s].filePath)
                    IN /\ got.found
                       /\ got.body = xfer[s].file.bytes
                       /\ got.contentType = xfer[s].file.type
           /\ (cpc[s] = "settled" /\ xfer[s].fn = "legacyDownloadFile"
                   /\ result[s].state = "resolved") =>
                 LET got == GetObject(store, DEFAULT_BUCKET, xfer[s].filePath)
                 IN /\ got.found
                    /\ Atob(inbox[s].data.data) = got.body
                    /\ result[s].value.bytes = got.body

\* a legacy download has returned the three bytes that an uploadFile of this
\* behaviour put, with their content type
C6_Witness ==
    \E s \in Slots :
        /\ cpc[s] = "settled"
        /\ xfer[s].fn = "legacyDownloadFile"
        /\ result[s].state = "resolved"
        /\ result[s].value = Blob(<<255, 0, 255>>, "text/plain")
        /\ Len(calls) = 1
        /\ calls[1].op = "GetObject"

NonDecreasing(log) == \A n \in 1..(Len(log) - 1) : log[n] <= log[n + 1]

InRange(log) == \A n \in DOMAIN log : log[n] \in 0..100

\* lengths of files of several windows, with and without a short last one
LongLengths ==
    {n * chunkSize + d : n \in {1, 2, 3, 7, 10, 20, 100, 1000}, d \in {0, 1}}

\* what the encode loop, the end of the conversion and the end of the upload
\* report for long files
LongUploadsReportWell ==
    \A length \in LongLengths :
        LET log == EncodeReports(length) \o <<50, 100>>
        IN NonDecreasing(log) /\ InRange(log)

\* lengths of downloads around and beyond the step of the decode loop
DecodeLengths == {9999, 10000, 10001, 65537, 123456, 1000000}

\* what the legacy downloadFile reports for long files
LongDownloadsReportWell ==
    \A length \in DecodeLengths :
        LET log == <<10, 50>> \o LegacyDecodeReports(length) \o <<100>>
        IN NonDecreasing(log) /\ InRange(log)

\* the announced lengths of long streams, and of each the bytes received
\* after every chunk
StreamTotals == {7, 100, 65537, 1000000}
ReceivedOf(total) ==
    [n \in 1..12 |-> IF n <= 10 THEN (n * total) \div 10 ELSE total + (n - 10)]

\* what the streamed downloadFile reports for long streams, also for streams
\* longer than announced
LongStreamsReportWell ==
    \A total \in StreamTotals :
        LET received == ReceivedOf(total)
            log == [n \in 1..12 |-> StreamProgress(received[n], total)] \o <<100>>
        IN NonDecreasing(log) /\ InRange(log)

\* C7: the values a call of uploadFile (the current one or the older one), of
\* the streamed downloadFile or of the legacy downloadFile has passed to onProgress are integers of 0..100 that
\* never decrease, and when the call resolves the last of them is 100; the
\* same holds of what the three report for long files.
C7_ProgressMonotoneToHundred ==
    /\ \A s \in Slots :
          /\ NonDecreasing(progressLog[s])
          /\ InRange(progressLog[s])
          /\ (cpc[s] = "settled" /\ result[s].state = "resolved"
                  /\ xfer[s].fn \in {"uploadFile", "legacyUploadFile", "downloadFile",
                                     "legacyDownloadFile"}) =>
                /\ progressLog[s] # <<>>
                /\ progressLog[s][Len(progressLog[s])] = 100
    /\ LongUploadsReportWell
    /\ LongDownloadsReportWell
    /\ LongStreamsReportWell

\* a streamed download of three chunks has resolved after reporting the capped
\* 99 for more bytes than the header announced
C7_Witness ==
    \E s \in Slots :
        /\ cpc[s] = "settled"
        /\ xfer[s].fn = "downloadFile"
        /\ result[s].state = "resolved"
        /\ Len(reader[s].chunks) = 3
        /\ reader[s].received = 3
        /\ reader[s].total = 2
        /\ Len(progressLog[s]) >= 4
        /\ progressLog[s][Len(progressLog[s]) - 1] = 99

\* ------------------------------------------------------------------------
\* Properties of the download page
\* ------------------------------------------------------------------------

KeyExists == GetObject(store, DEFAULT_BUCKET, file.storage_path).found

\* C8: a download action invokes get-download-url at most twice: first for the
\* streamed downloadFile; the second time, for getDownloadUrl, only in the step
\* in which the handler sees the streamed downloadFile rejected, and by a new
\* request; the failure toast appears only in the step in which the handler
\* sees getDownloadUrl rejected as well.
C8_StreamedFirstThenOneFallback ==
    [][/\ Len(issued') <= 2
       /\ \A n \in DOMAIN issued' : issued'[n] = "get-download-url"
       /\ hpc' = "downloadFile" =>
             Len(issued') = 1 /\ xfer'[DownloadSlot'].fn = "downloadFile"
       /\ hpc' = "getDownloadUrl" =>
             Len(issued') = 2 /\ xfer'[DownloadSlot'].fn = "getDownloadUrl"
       /\ (hpc' = "getDownloadUrl" /\ hpc # "getDownloadUrl") =>
             /\ hpc = "downloadFile"
             /\ xfer[DownloadSlot].fn = "downloadFile"
             /\ result[DownloadSlot].state = "rejected"
             /\ net'[DownloadSlot] = "sending"
             /\ outbox'[DownloadSlot].operation = "get-download-url"
             /\ outbox'[DownloadSlot].filePath = file.storage_path
       /\ (toast' = "Download failed" /\ toast # "Download failed") =>
             /\ hpc = "getDownloadUrl"
             /\ Len(issued) = 2
             /\ result[DownloadSlot].state = "rejected"
       /\ (clicked'.kind = "url" /\ clicked.kind # "url") =>
             /\ hpc = "getDownloadUrl"
             /\ clicked'.url = inbox[DownloadSlot].data.url
      ]_vars

\* both strategies failed and the failure is shown
C8_Witness ==
    /\ hpc = "idle"
    /\ Len(issued) = 2
    /\ clicked.kind = "none"
    /\ toast = "Download failed"
    /\ result[DownloadSlot].state = "rejected"

\* C9 (as claimed): when the streamed downloadFile has failed and the store
\* holds the key, the action completes through the fallback: the presigned URL
\* is opened and no failure is shown.
C9_FallbackCompletesWhenKeyExists ==
    (Len(issued) = 2 /\ hpc # "getDownloadUrl" /\ KeyExists) =>
        /\ clicked.kind = "url"
        /\ ~(hpc = "idle" /\ toast = "Download failed")

\* C9 (amended): in the step in which the handler sees the fallback settled:
\* if getDownloadUrl resolved, the URL it resolved to is opened, no toast is
\* shown, the page state is reset and the action goes on to count the
\* download, whether the store holds the key or not; if it was rejected, which
\* happens also when the store holds the key, the failure toast is shown and
\* the action ends.
C9_FallbackCompletesWhenUrlObtained ==
    [][(hpc = "getDownloadUrl" /\ hpc' # "getDownloadUrl") =>
          /\ ~downloading'
          /\ downloadProgress' = 0
          /\ IF result[DownloadSlot].state = "resolved"
             THEN /\ clicked'.kind = "url"
                  /\ clicked'.url = result[DownloadSlot].value
                  /\ clicked'.url.key = file.storage_path
                  /\ toast' = toast
                  /\ hpc' = "update"
             ELSE /\ clicked'.kind = "none"
                  /\ toast' = "Download failed"
                  /\ hpc' = "idle"
      ]_vars

\* the streamed path failed, the fallback opened the URL of a key the store
\* holds, and the download is being counted
C9_Witness ==
    /\ Len(issued) = 2
    /\ hpc = "update"
    /\ clicked.kind = "url"
    /\ KeyExists
    /\ toast # "Download failed"

\* ------------------------------------------------------------------------
\* Properties of the dashboard
\* ------------------------------------------------------------------------

\* C10 (as claimed): once handleFileUpload has handled the failure of an
\* upload, the displayed upload state is reset and stays so: the flag is
\* false, the progress map is empty, and no entry is left at a value that is
\* neither 0 nor 100.
C10_ProgressResetAfterFailure ==
    (uhpc = "idle" /\ toast = "Upload failed") =>
        /\ ~uploading
        /\ uploadProgress = EmptyMap
        /\ \A name \in DOMAIN uploadProgress : uploadProgress[name] \in {0, 100}

\* C10, the part the code keeps: when an action of the download page has
\* ended, its progress is 0 and its flag false.
C10_DownloadProgressReset ==
    hpc \in {"idle", "update", "loadFile"} => (~downloading /\ downloadProgress = 0)

\* ------------------------------------------------------------------------
\* Properties of the proxy's dispatch and of its responses
\* ------------------------------------------------------------------------

\* a request other than a preflight has been answered
Answered == pc = "done" /\ request.method = "POST"

\* the body parsed and its operation is outside the closed set
InvalidAnswered == Answered /\ request.json /\ request.operation \notin Operations

\* C11 as stated: every request whose operation is outside the closed set is
\* answered with status 400 and a body {error}, and makes no store call
C11_InvalidOperationIs400 ==
    InvalidAnswered =>
        /\ response.status = 400
        /\ DOMAIN response.body = {"error"}
        /\ calls = <<>>

\* C11 amended: a request whose operation is outside the closed set makes no
\* store call and is answered with a body {error}: with status 400 when the
\* credentials are configured, with status 500 when one is missing
C11_InvalidOperationRejected ==
    InvalidAnswered =>
        /\ calls = <<>>
        /\ DOMAIN response.body = {"error"}
        /\ response.status =
              IF CredentialsConfigured(env) THEN 400 ELSE 500
        /\ response.status = 400 => response.body.error = "Invalid operation"

C11_Witness ==
    /\ InvalidAnswered
    /\ request.operation = "rename"
    /\ CredentialsConfigured(env)
    /\ response = InvalidOperationResponse
    /\ nreq = 2

C11_WitnessUnconfigured ==
    /\ InvalidAnswered
    /\ ~CredentialsConfigured(env)
    /\ response.status = 500

CredentialMissing == env.STORJ_ACCESS_KEY_ID = "" \/ env.STORJ_SECRET_ACCESS_KEY = ""

IsErrorResponse(r) == r.status >= 400 /\ DOMAIN r.body = {"error"}

\* C12: when the access key id or the secret access key is missing, no store
\* call (put, get, list-versions, delete, presign) is made or pending for any
\* request, and every request that carries an operation is answered with an
\* error response
C12_NoCredentialsNoStoreCall ==
    CredentialMissing =>
        /\ calls = <<>>
        /\ pc \in {"idle", "done"}
        /\ Answered => IsErrorResponse(response)

C12_Witness ==
    /\ env = NoSecret
    /\ Answered
    /\ request.operation = "get-download-url"
    /\ response = ErrorResponse("Storj credentials not configured")
    /\ nreq = 2

IsSuccessResponse(r) ==
    r.status = 200 /\ "success" \in DOMAIN r.body /\ r.body.success = TRUE

\* a failure was raised while the answered request was handled
FailureRaised ==
    \/ ~request.json
    \/ CredentialMissing
    \/ request.operation = "upload" /\ ~AtobValid(request.fileData)
    \/ request.operation \notin Operations
    \/ FailedCalls # {}
    \/ stream.error # ""

\* C13: a request other than a preflight has no response while it is handled
\* and ends with one response, a success or an error; when a failure was
\* raised (unparsable body, configuration, payload decoding, store error) the
\* response is a non-2xx one with body {error: message}, otherwise it is a
\* success; a failed store call is the last store call of its request
C13_CompletedOrFailed ==
    /\ pc \notin {"idle", "done"} => response = NoResponse
    /\ \A n \in FailedCalls : n = Len(calls)
    /\ Answered =>
          /\ IsSuccessResponse(response) # IsErrorResponse(response)
          /\ IsErrorResponse(response) <=> FailureRaised
          /\ IsErrorResponse(response) => response.body.error # ""

C13_Witness ==
    /\ Answered
    /\ request.operation = "delete-multiple"
    /\ Len(calls) = 3
    /\ FailedCalls = {3}
    /\ response = ErrorResponse("StoreError")

C13_WitnessDecode ==
    /\ Answered
    /\ request.operation = "upload"
    /\ ~AtobValid(request.fileData)
    /\ response = ErrorResponse("Failed to decode base64")

\* the texts a response carries besides the file's key and bytes: the
\* message of an error, the content type of a download, and the bucket the
\* presigned URL names
UrlTexts(url) == {url.bucket}

Texts(r) ==
    (IF "error" \in DOMAIN r.body THEN {r.body.error} ELSE {})
      \cup (IF "contentType" \in DOMAIN r.body THEN {r.body.contentType} ELSE {})
      \cup (IF "url" \in DOMAIN r.body THEN UrlTexts(r.body.url) ELSE {})

ConfiguredSecrets == {env.STORJ_ACCESS_KEY_ID, env.STORJ_SECRET_ACCESS_KEY} \ {""}

C14_WitnessNoSecret ==
    /\ Answered
    /\ ConfiguredSecrets = {"id"}
    /\ response = ErrorResponse("Storj credentials not configured")

\* ------------------------------------------------------------------------
\* Properties of the presigned URL
\* ------------------------------------------------------------------------

\* the answer to get-download-url carries a URL for the key of the request in
\* the bucket of the request, with a lifetime of 600 seconds, and no store
\* call was made for it
UrlAsRequested ==
    Finished("get-download-url") =>
        /\ IsSuccessResponse(response)
        /\ response.body.url.key = request.filePath
        /\ response.body.url.bucket =
              (IF request.bucket = "" THEN "shyfto" ELSE request.bucket)
        /\ response.body.url.expiresIn = 600
        /\ response.body.url.issuedAt <= now
        /\ calls = <<>>

\* a GET of the URL is refused exactly when more than 600 seconds have passed
\* since it was issued; what it returns was put under the URL's key in the
\* URL's bucket; only a key nothing was put under is not found
FetchAsGranted ==
    fetched # NoFetch =>
        /\ fetched.status = 403 <=> fetched.at > fetched.url.issuedAt + 600
        /\ fetched.status \in {200, 403, 404}
        /\ fetched.status = 200 =>
              \E v \in {0, 1} : fetched.body = Tag(fetched.url.key, fetched.url.bucket, v)
        /\ fetched.status = 404 => fetched.url.key = KeyB

\* the URL is signed at the time of the request and the store is left as it is
IssuingChangesNothing ==
    pc = "presign" /\ pc' = "done" =>
        /\ store' = store
        /\ nextVid' = nextVid
        /\ response'.body.url.issuedAt = now

\* a GET in time returns the bytes of the latest put under the key, also of
\* a put made after the URL was issued
FetchReturnsLastPut ==
    /\ fetched' # fetched
    /\ now <= held.issuedAt + 600
    /\ Finished("upload")
    /\ IsSuccessResponse(response)
    /\ request.filePath = held.key
    /\ bucketName = held.bucket
    => /\ fetched'.status = 200
       /\ fetched'.body = base64Decode(request.fileData)
       /\ fetched'.body = Tag(held.key, held.bucket, 1)

\* C15: the URL returned by get-download-url for key K reads exactly K in the
\* resolved bucket (a GET of it yields the bytes last put under K), is valid
\* for 600 seconds from issuance and refused afterwards, and issuing it
\* changes nothing in the store
C15_PresignedUrlScopedAndTimed ==
    [][/\ IssuingChangesNothing
       /\ FetchReturnsLastPut
       /\ UrlAsRequested'
       /\ FetchAsGranted']_vars

\* a URL for KeyA issued at second 1, a put under KeyA after that, and a GET
\* at second 601 that returns the bytes of that put
C15_Witness ==
    /\ fetched.status = 200
    /\ fetched.url.key = KeyA
    /\ fetched.url.issuedAt = 1
    /\ fetched.at = 601
    /\ fetched.body = Tag(KeyA, DEFAULT_BUCKET, 1)
    /\ store[AltBucket][KeyA] # store[DEFAULT_BUCKET][KeyA]

\* a GET one second after the lifetime is refused
C15_WitnessExpired ==
    /\ fetched.status = 403
    /\ fetched.url.issuedAt = 0
    /\ fetched.at = 601
    /\ GetObject(store, fetched.url.bucket, fetched.url.key).found

\* ------------------------------------------------------------------------
\* Properties of the callers that delete rows
\* ------------------------------------------------------------------------

\* the rows of `rows` that the step removes
RemovedRows == {n \in DOMAIN rows : \A m \in DOMAIN rows' : rows'[m].id # rows[n].id}

ObjectExists(path) == GetObject(store, DEFAULT_BUCKET, path).found

\* C16: on every code path a row of `files` is removed only when the store
\* deletion for its storage key has succeeded: no row is removed while its
\* object still exists in the store
C16_RowDeletedOnlyAfterStoreDelete ==
    [][\A n \in RemovedRows : ~ObjectExists(rows[n].storage_path)]_vars

\* the same for the rows removed by the dashboard and by the cleanup function
C16_DashboardAndCleanupDeleteStoreFirst ==
    [][lpc = "idle" => \A n \in RemovedRows : ~ObjectExists(rows[n].storage_path)]_vars

\* the dashboard removed a row after a delete that succeeded
C16_WitnessDashboard ==
    /\ toast = "Success"
    /\ Len(rows) = 1
    /\ ~ObjectExists(KeyA)
    /\ ObjectExists(KeyB)

\* the download page removed the row of an expired file: its object is
\* still in the store
C16_WitnessOrphan ==
    /\ notFound
    /\ lpc = "idle"
    /\ Len(rows) = 1
    /\ rows[1].id = 2
    /\ ObjectExists(KeyA)
    /\ nreq = 0

\* ------------------------------------------------------------------------
\* Properties of invocations that run at the same time
\* ------------------------------------------------------------------------

\* what the store holds under a key, whatever ids its entries have
View(st, k) ==
    [got |-> GetObject(st, DEFAULT_BUCKET, k),
     versions |-> Len(st[DEFAULT_BUCKET][k].ids) - Cardinality(st[DEFAULT_BUCKET][k].marks),
     markers |-> Cardinality(st[DEFAULT_BUCKET][k].marks)]

\* an id no entry has
FreshId == 0 - 1

\* the store and the response after request r has run alone on store st with
\* every store call answered
Alone(st, r) ==
    LET k == r.filePath
        obj == st[DEFAULT_BUCKET][k]
        got == GetObject(st, DEFAULT_BUCKET, k)
        entries == [n \in 1..Len(obj.ids) |-> [Key |-> k, VersionId |-> obj.ids[n]]]
        withVersionId == SelectSeq(entries, LAMBDA e : e.VersionId # NoVersionId)
    IN IF r.operation = "upload"
       THEN [store |-> PutObject(st, versioned[DEFAULT_BUCKET], DEFAULT_BUCKET, k,
                                 Atob(r.fileData), r.contentType, FreshId),
             response |-> SuccessResponse]
       ELSE IF r.operation = "delete"
       THEN [store |-> IF withVersionId = <<>>
                       THEN DeleteObject(st, versioned[DEFAULT_BUCKET], DEFAULT_BUCKET, k,
                                         FreshId)
                       ELSE DeleteObjects(st, DEFAULT_BUCKET, withVersionId),
             response |-> SuccessResponse]
       ELSE IF r.operation = "download"
       THEN [store |-> st,
             response |-> IF got.found
                          THEN [status |-> 200,
                                body |-> [success |-> TRUE, data |-> Btoa(got.body),
                                          contentType |-> got.contentType]]
                          ELSE ErrorResponse("StoreError")]
       ELSE [store |-> st,
             response |-> [status |-> 200,
                           body |-> [success |-> TRUE,
                                     url |-> getSignedUrl(env, DEFAULT_BUCKET, k, 600)]]]

\* both invocations have answered, and no store call failed other than the
\* get of a key the store does not hold, and no reading of a Body
BothAnswered ==
    /\ pc = "done"
    /\ parked.pc = "done"
    /\ stream.error = ""
    /\ parked.stream.error = ""
    /\ \A c \in Range(calls) \cup Range(parked.calls) :
          ~c.ok => c.op = "GetObject" /\ ~GetObject(store0, DEFAULT_BUCKET, c.key).found

\* x then y on the store of the start
InOrder(x, y) ==
    LET first == Alone(store0, x)
        second == Alone(first.store, y)
    IN [store |-> second.store, x |-> first.response, y |-> second.response]

\* C17: when two invocations on different keys have run interleaved, the
\* response of each and what the store holds under each key are those of
\* running the two operations one after the other, in either order
C17_DifferentKeysDoNotInterfere ==
    BothAnswered =>
        \A o \in {InOrder(request, parked.request)} :
        \A q \in {InOrder(parked.request, request)} :
            /\ response = o.x /\ response = q.y
            /\ parked.response = o.y /\ parked.response = q.x
            /\ \A k \in {request.filePath, parked.request.filePath} :
                  /\ View(store, k) = View(o.store, k)
                  /\ View(store, k) = View(q.store, k)

\* a delete of KeyA listed page by page; the other invocation deleted the
\* entries of KeyAB, of which KeyA is a prefix, between two of the pages, so
\* that the listing met a marker that was gone and listed entries twice
C17_Witness ==
    /\ BothAnswered
    /\ pageSize = 1
    /\ request.operation = "delete"
    /\ request.filePath = KeyA
    /\ parked.request.operation = "delete"
    /\ parked.request.filePath = KeyAB
    /\ Len(objectsToDelete) > Len(store0[DEFAULT_BUCKET][KeyA].ids)
    /\ store0[DEFAULT_BUCKET][KeyA].ids # <<>>
    /\ View(store, KeyA).versions = 0
    /\ View(store, KeyAB).versions = 0

\* an upload under KeyB put its bytes while a delete of KeyA was listing
C17_WitnessUpload ==
    /\ pc = "list"
    /\ request.filePath = KeyA
    /\ Len(calls) = 2
    /\ parked.pc = "done"
    /\ parked.request.operation = "upload"
    /\ parked.request.filePath = KeyB
    /\ parked.response = SuccessResponse


\* ------------------------------------------------------------------------
\* C18  one bucket per request
\* ------------------------------------------------------------------------

\* the bucket the caller asked for
WantedBucket(r) == IF r.bucket = "" THEN DEFAULT_BUCKET ELSE r.bucket

\* C18  From the moment a request is received until the next one, the bucket
\* of the handler is the caller's override when one is given and the default
\* bucket otherwise; every store call of the request names that bucket, no
\* object of another bucket changes, a download that succeeds found its
\* object in that bucket, and a presigned URL names that bucket.
C18_OneBucketPerRequest ==
    [][pc' # "idle" =>
         LET wanted == WantedBucket(request')
         IN /\ bucketName' = wanted
            /\ \A n \in 1..Len(calls') : calls'[n].bucket = wanted
            /\ \A b \in Buckets \ {wanted} : store'[b] = store[b]
            /\ (pc' = "done" /\ response'.status = 200
                  /\ request'.operation = "download")
                 => GetObject(store', wanted, request'.filePath).found
            /\ (pc' = "done" /\ response'.status = 200
                  /\ request'.operation = "get-download-url")
                 => response'.body.url.bucket = wanted]_vars

\* a delete-multiple with an override, answered after listing pages and
\* batches for two keys: the objects of the default bucket are still there
C18_Witness ==
    /\ pc = "done"
    /\ request.operation = "delete-multiple"
    /\ request.bucket = AltBucket
    /\ request.files = <<KeyAB, KeyA>>
    /\ response = SuccessResponse
    /\ pageSize = 1
    /\ Len(calls) >= 4
    /\ \A n \in 1..Len(calls) : calls[n].bucket = AltBucket
    /\ store[AltBucket][KeyA].ids = <<>>
    /\ store[DEFAULT_BUCKET][KeyA].ids # <<>>

\* a put, a get and a presign with an override, and a delete without one
C18_WitnessEach ==
    /\ pc = "done"
    /\ response.status = 200
    /\ \/ /\ request.operation \in {"upload", "download"}
          /\ request.bucket = AltBucket
          /\ Len(calls) = 1
          /\ calls[1].bucket = AltBucket
       \/ /\ request.operation = "get-download-url"
          /\ request.bucket = AltBucket
          /\ response.body.url.bucket = AltBucket
       \/ /\ request.operation = "delete"
          /\ request.bucket = ""
          /\ Len(calls) >= 2
          /\ calls[1].bucket = DEFAULT_BUCKET


\* ------------------------------------------------------------------------
\* C19  the listing of a deletion is complete and exact
\* ------------------------------------------------------------------------

\* the pairs of the versions and delete-markers the bucket holds under k
PairsOf(st, b, k) ==
    {[Key |-> k, VersionId |-> id] : id \in Range(st[b][k].ids) \ {NoVersionId}}

\* the number of entries of the bucket whose key starts with prefix
CountWithPrefix(st, b, prefix) ==
    LET n(k) == IF HasPrefix(k, prefix) THEN Len(st[b][k].ids) ELSE 0
    IN n(KeyA) + n(KeyAB) + n(KeyB)

\* the listing pages received so far by the deletion in progress
PagesOfDeletion ==
    SelectSeq(calls, LAMBDA c : c.op = "ListObjectVersions" /\ c.idx = fileIdx /\ c.ok)

\* the listing of the deletion in progress is over and nothing is deleted yet
ListingComplete == pc \in {"deleteObject", "deleteObjects"} /\ batches = <<>>

\* C19  When the listing of a deletion of key K is over, the accumulated
\* pairs are, each once, the (K, versionId) of every version and every
\* delete-marker the bucket holds under exactly K, and of no other key with
\* the prefix K; the pages asked for are as many as the entries with the
\* prefix K take at the page size of the store.
C19_AccumulatedIsEveryEntryOfKey ==
    ListingComplete =>
        LET wanted == PairsOf(store, bucketName, key)
            n == CountWithPrefix(store, bucketName, key)
        IN /\ Range(objectsToDelete) = wanted
           /\ Len(objectsToDelete) = Cardinality(wanted)
           /\ Len(PagesOfDeletion)
                = (IF n = 0 THEN 1 ELSE (n + pageSize - 1) \div pageSize)

\* KeyA with two versions and a delete-marker, KeyAB with entries of its
\* own, listed one entry a page: five pages, three pairs
C19_Witness ==
    /\ ListingComplete
    /\ pageSize = 1
    /\ key = KeyA
    /\ store[bucketName][KeyAB].ids # <<>>
    /\ store[bucketName][KeyA].marks # {}
    /\ Len(PagesOfDeletion) = 5
    /\ Len(objectsToDelete) = 3

\* pages of two entries: a page holds the last entry of KeyA and the first
\* of KeyAB
C19_WitnessMixedPage ==
    /\ ListingComplete
    /\ pageSize = 2
    /\ key = KeyA
    /\ Len(store[bucketName][KeyA].ids) = 3
    /\ Len(store[bucketName][KeyAB].ids) = 2
    /\ Len(PagesOfDeletion) = 3
    /\ Len(objectsToDelete) = 3


\* ------------------------------------------------------------------------
\* C20  listing first, then one batch at a time, of pairs just listed
\* ------------------------------------------------------------------------

IsDeleteCall(c) == c.op \in {"DeleteObject", "DeleteObjects"}

\* this step made a store call
CallMade == Len(calls') = Len(calls) + 1 /\ request' = request
TheCall == calls'[Len(calls')]

\* the delete calls made so far by the deletion in progress
DeletesOfDeletion == SelectSeq(calls, LAMBDA c : IsDeleteCall(c) /\ c.idx = fileIdx)

RECURSIVE SumSizes(_)
SumSizes(cs) == IF cs = <<>> THEN 0 ELSE Head(cs).size + SumSizes(Tail(cs))

\* C20  A delete call of a deletion is made only when at least one listing
\* page has been received and the last one was not truncated, and no
\* listing page is asked for after a delete call. A batch is sent only when
\* every earlier batch of the deletion has been answered, with success. The
\* pairs of a batch are pairs of the key of the deletion that the bucket
\* holds under that key, and the deletion sends no more pairs than its own
\* listing pages returned.
C20_ListThenDeleteOneBatchAtATime ==
    [][CallMade =>
         /\ IsDeleteCall(TheCall) =>
              /\ ~isTruncated
              /\ PagesOfDeletion # <<>>
              /\ \/ calls[Len(calls)] = PagesOfDeletion[Len(PagesOfDeletion)]
                 \/ /\ calls[Len(calls)].op = "DeleteObjects"
                    /\ calls[Len(calls)].ok
                    /\ calls[Len(calls)].idx = fileIdx
         /\ TheCall.op = "ListObjectVersions" => DeletesOfDeletion = <<>>
         /\ TheCall.op = "DeleteObjects" =>
              /\ Len(batches') = Len(batches) + 1
              /\ Len(DeletesOfDeletion) = Len(batches)
              /\ \A n \in DOMAIN DeletesOfDeletion : DeletesOfDeletion[n].ok
              /\ Range(batches'[Len(batches')]) \subseteq PairsOf(store, bucketName, key)
              /\ Len(Concat(batches')) <= SumSizes(PagesOfDeletion)]_vars

\* the third batch of the second deletion of a delete-multiple has been
\* answered, after a listing of more than one page
C20_Witness ==
    /\ pc = "returned"
    /\ request.operation = "delete-multiple"
    /\ fileIdx = 2
    /\ Len(batches) = 3
    /\ Len(PagesOfDeletion) >= 2
    /\ Len(DeletesOfDeletion) = 3
    /\ DeletesOfDeletion[3].ok


\* ------------------------------------------------------------------------
\* C21  a deletion touches the entries of its key only
\* ------------------------------------------------------------------------

\* C21  No step of the proxy changes the versions, the delete-markers or the
\* contents of a key other than the key of the deletion in progress, in the
\* bucket of the request or in another: the entries of the keys that start
\* with the deleted key are listed with it and left as they were, whether
\* the deletion succeeds or fails.
C21_OtherKeysUntouched ==
    [][\A b \in Buckets, k \in Keys :
          (b # bucketName \/ k # key) => store'[b][k] = store[b][k]]_vars

\* KeyA was deleted, one entry a page, with the entries of KeyAB on the
\* pages: KeyAB holds what it held
C21_Witness ==
    /\ pc = "done"
    /\ nreq = 1
    /\ request.operation = "delete"
    /\ request.filePath = KeyA
    /\ response = SuccessResponse
    /\ pageSize = 1
    /\ Len(PagesOfDeletion) = 5
    /\ store[bucketName][KeyA].ids = <<>>
    /\ Len(store[bucketName][KeyAB].ids) = 2
    /\ store[bucketName][KeyAB] = store0[bucketName][KeyAB]

\* the deletion of KeyA failed at its batch, after the listing
C21_WitnessFailed ==
    /\ pc = "done"
    /\ nreq = 1
    /\ request.operation = "delete"
    /\ request.filePath = KeyA
    /\ response.status = 500
    /\ Len(batches) = 1
    /\ Len(store[bucketName][KeyAB].ids) = 2
    /\ store = store0


\* ------------------------------------------------------------------------
\* C22  the deletion of a key of which nothing is listed
\* ------------------------------------------------------------------------

\* the plain delete of the deletion in progress was answered in this step
FallbackAnswered == pc = "deleteObject" /\ pc' = "returned"

\* one plain delete on the key, no batch, and success for a single `delete`
OnePlainDelete ==
    /\ FallbackAnswered =>
         /\ objectsToDelete = <<>>
         /\ batches' = <<>>
         /\ SelectSeq(calls', LAMBDA c : IsDeleteCall(c) /\ c.idx = fileIdx)
              = <<[op |-> "DeleteObject", bucket |-> bucketName, key |-> key,
                   idx |-> fileIdx, size |-> 0, ok |-> TRUE]>>
    /\ (pc = "returned" /\ pc' = "done" /\ request.operation = "delete")
         => response' = SuccessResponse

\* C22 (as claimed)  When nothing was accumulated for the key, the deletion
\* makes one plain delete call on it and no batch call and reports success,
\* and when the key held nothing (it was deleted before) the store is left
\* as it was.
C22_EmptyListingOneDeleteStoreUnchanged ==
    [][/\ OnePlainDelete
       /\ (FallbackAnswered /\ store[bucketName][key].ids = <<>>) => store' = store]_vars

\* C22, the part the code keeps: the one plain delete, no batch, success; the
\* store is left as it was when the bucket keeps no versions.
C22_EmptyListingOnePlainDelete ==
    [][/\ OnePlainDelete
       /\ (FallbackAnswered /\ store[bucketName][key].ids = <<>>
             /\ ~versioned[bucketName]) => store' = store]_vars

\* a second `delete` of a key whose entries the first one removed: answered
\* with success, and the key has a delete-marker it did not have
C22_WitnessRepeated ==
    /\ pc = "done"
    /\ nreq = 2
    /\ request.operation = "delete"
    /\ request.filePath = KeyA
    /\ response = SuccessResponse
    /\ store0[bucketName][KeyA].ids # <<>>
    /\ objectsToDelete = <<>>
    /\ versioned[bucketName]
    /\ Len(store[bucketName][KeyA].ids) = 1
    /\ store[bucketName][KeyA].marks # {}


\* ------------------------------------------------------------------------
\* C23  the deletion terminates
\* ------------------------------------------------------------------------

\* a request is being handled
Handling == pc \notin {"idle", "done"}

\* the last page came flagged as truncated and without markers: the next
\* call asks for the first page again
AskingAgain ==
    /\ pc \in {"list", "listing"}
    /\ isTruncated
    /\ KeyMarker = Undefined
    /\ PagesOfDeletion # <<>>

\* C23 (as claimed)  Every request that is being handled is answered, whatever
\* pages the store gives.
C23_DeletionTerminates == [](Handling => <>(pc = "done"))

\* C23, the part the code keeps: a request is answered unless a page comes
\* flagged as truncated and without markers.
C23_TerminatesUnlessUnmarkedPage == [](Handling => <>(pc = "done" \/ AskingAgain))

\* the listing of KeyA asks for its first page once more, KeyA holding
\* nothing and KeyAB, listed with it, two entries
C23_WitnessAskingAgain ==
    /\ AskingAgain
    /\ pc = "listing"
    /\ key = KeyA
    /\ objectsToDelete = <<>>
    /\ Len(store[bucketName][KeyAB].ids) = 2
    /\ Len(PagesOfDeletion) = 1


\* ------------------------------------------------------------------------
\* C24  the reports of the encode phase of uploadFile
\* ------------------------------------------------------------------------

\* what uploadFile reports before the invoke: the values of the encode loop
\* and then the 50 of storj.ts:31
EncodeReported == enc.loop \o enc.closing

\* C24 as stated: every value reported before the invoke is at least 5 above
\* the value reported before it (above -1 for the first), and lies in 0..50
C24_EveryReportThrottled ==
    enc.length >= 0 =>
        \A n \in DOMAIN EncodeReported :
            /\ EncodeReported[n]
                  - (IF n = 1 THEN 0 - 1 ELSE EncodeReported[n - 1]) >= 5
            /\ EncodeReported[n] \in 0..50

\* C24 amended: every value the encode loop of uploadFile reports is at
\* least 5 above the value reported before it (above -1 for the first), so
\* the loop reports at most once for every 5 points; when the loop has ended
\* 50 is reported once more, however close the last value of the loop is;
\* all these values, which are all that is reported before the invoke, lie in
\* 0..50 and none is below the one before it; for files of no byte, of less
\* than a window and of many windows alike.
C24_EncodeReportsThrottled ==
    enc.length >= 0 =>
        /\ \A n \in DOMAIN enc.loop :
              enc.loop[n] - (IF n = 1 THEN 0 - 1 ELSE enc.loop[n - 1]) >= 5
        /\ Len(enc.loop) <= 10
        /\ enc.closing = <<50>>
        /\ \A n \in DOMAIN EncodeReported : EncodeReported[n] \in 0..50
        /\ \A n \in 2..Len(EncodeReported) :
              EncodeReported[n] >= EncodeReported[n - 1]

\* a file of 25 windows: the loop reported 4, 10, ..., 46 and not the 48 of
\* its last turn, and the 50 follows the 46
C24_Witness ==
    /\ enc.length = 25 * chunkSize
    /\ enc.loop = <<4, 10, 16, 22, 28, 34, 40, 46>>
    /\ enc.closing = <<50>>

\* files of no byte and of less than a window: the loop reported nothing
C24_WitnessShort ==
    /\ enc.length \in {0, 3, chunkSize - 1}
    /\ enc.loop = <<>>
    /\ enc.closing = <<50>>


\* ------------------------------------------------------------------------
\* C25  the 100 of uploadFile
\* ------------------------------------------------------------------------

\* C25 (as claimed)  A call of uploadFile that has reported 100 has resolved:
\* the proxy answered its upload with success.
C25_HundredOnlyAfterSuccess ==
    \A s \in Slots :
        (xfer[s].fn = "uploadFile" /\ 100 \in Range(progressLog[s]))
            => result[s].state = "resolved"

\* C25, the part the code keeps: a call of uploadFile that resolved reported
\* 100, once and last, and nothing is reported after the call has settled.
C25_ResolvedUploadEndsWithHundred ==
    \A s \in Slots :
        (xfer[s].fn = "uploadFile" /\ cpc[s] = "settled"
            /\ result[s].state = "resolved")
            => /\ progressLog[s][Len(progressLog[s])] = 100
               /\ Cardinality({n \in DOMAIN progressLog[s] : progressLog[s][n] = 100}) = 1

\* uploadFile was rejected, the invoke having returned an error, and the last
\* value it reported is 100
C25_WitnessRejected ==
    \E s \in Slots :
        /\ xfer[s].fn = "uploadFile"
        /\ cpc[s] = "settled"
        /\ result[s].state = "rejected"
        /\ progressLog[s] = <<50, 100>>


\* ------------------------------------------------------------------------
\* C26  the reports of the streamed downloadFile
\* ------------------------------------------------------------------------

\* the bytes received with the first n chunks
RECURSIVE ReceivedAfter(_, _)
ReceivedAfter(chunks, n) ==
    IF n = 0 THEN 0 ELSE ReceivedAfter(chunks, n - 1) + Len(chunks[n])

\* floor(100 * received / total), capped at 99
ExactPercent(received, total) == Min(99, (100 * received) \div total)

\* the calls of the streamed downloadFile whose response had a body
Streaming(s) ==
    /\ xfer[s].fn = "downloadFile"
    /\ reader[s].hasBody
    /\ cpc[s] = "read" \/ (cpc[s] = "settled" /\ result[s].state = "resolved")

\* what was reported for the chunks read so far
ChunkReports(s) ==
    IF cpc[s] = "read" THEN progressLog[s]
    ELSE SubSeq(progressLog[s], 1, Len(progressLog[s]) - 1)

\* all of C26 but the values reported for the chunks: a report for every
\* chunk when the length was announced and none when it was not; 100 once,
\* last, when the stream has ended; the blob is the chunks in the order of
\* their arrival, which are the bytes of the object; without a body a single
\* 100
StreamedReportsInOrder(s) ==
    /\ Streaming(s) =>
         /\ Len(ChunkReports(s))
              = (IF reader[s].total = 0 THEN 0 ELSE Len(reader[s].chunks))
         /\ \A n \in DOMAIN ChunkReports(s) : ChunkReports(s)[n] <= 99
         /\ cpc[s] = "settled" =>
              /\ progressLog[s][Len(progressLog[s])] = 100
              /\ reader[s].unread = <<>>
              /\ result[s].value.bytes = Concat(reader[s].chunks)
              /\ result[s].value.bytes = GetObject(store, DEFAULT_BUCKET, KeyA).body
    /\ (xfer[s].fn = "downloadFile" /\ ~reader[s].hasBody
          /\ cpc[s] = "settled" /\ result[s].state = "resolved")
         => progressLog[s] = <<100>>
    /\ (xfer[s].fn = "downloadFile" /\ cpc[s] = "settled"
          /\ result[s].state = "rejected")
         => 100 \notin Range(progressLog[s])

\* C26 (as claimed)  The value reported for a chunk is
\* min(99, floor(100 * received / total)), ...
C26_StreamedProgressExact ==
    \A s \in Slots :
        /\ StreamedReportsInOrder(s)
        /\ Streaming(s) =>
             \A n \in DOMAIN ChunkReports(s) :
                 ChunkReports(s)[n]
                   = ExactPercent(ReceivedAfter(reader[s].chunks, n), reader[s].total)

\* C26  The value reported for a chunk is min(99, floor(100 * received /
\* total)) or one less, and at most 99, also when more bytes have arrived
\* than the header announced; 100 is reported once, after the last chunk, and
\* not by a call that fails; the blob holds the chunks in the order of their
\* arrival; a response without a body reports a single 100.
C26_StreamedProgressWithinOne ==
    \A s \in Slots :
        /\ StreamedReportsInOrder(s)
        /\ Streaming(s) =>
             \A n \in DOMAIN ChunkReports(s) :
                 LET exact == ExactPercent(ReceivedAfter(reader[s].chunks, n),
                                           reader[s].total)
                 IN ChunkReports(s)[n] \in {exact, exact - 1}

\* 29 of 50 announced bytes have arrived and 57 was reported, the quotient
\* of the doubles times 100 being just below 58
C26_Witness ==
    \E s \in Slots :
        /\ Streaming(s)
        /\ cpc[s] = "read"
        /\ reader[s].total = 50
        /\ reader[s].received = 29
        /\ progressLog[s] = <<57>>

\* a stream has ended that gave more bytes than announced, in three chunks
C26_WitnessBeyond ==
    \E s \in Slots :
        /\ Streaming(s)
        /\ cpc[s] = "settled"
        /\ reader[s].total = 49
        /\ reader[s].received = 50
        /\ Len(reader[s].chunks) = 3
        /\ progressLog[s][3] = 99
        /\ progressLog[s][4] = 100
        /\ Len(result[s].value.bytes) = 50


\* ------------------------------------------------------------------------
\* C27  the run of cleanup-expired-files
\* ------------------------------------------------------------------------

\* the files of the run that have been counted
Counted == IF job.pc \in {"invoke", "db"} THEN job.i - 1 ELSE job.i

\* C27  The run invokes `delete` for the storage path of the next expired
\* row, once, each time its loop moves on, and sends nothing otherwise; a
\* step counts at most one file, as a success or as a failure; the files
\* counted are those before the one in progress; and when the run has ended
\* the loop has been through every expired row, whatever failed, so that
\* successCount + failureCount is the number of rows it enumerated.
C27_EveryExpiredRowInvokedAndCounted ==
    [][/\ job'.i \in {job.i, job.i + 1}
       /\ job'.i = job.i + 1 =>
            /\ \E s \in Slots :
                  /\ xfer'[s].by = "cleanup"
                  /\ outbox'[s] = Req("delete", job'.expiredFiles[job'.i].storage_path,
                                      <<>>, <<>>, "", "")
                  /\ net'[s] = "sending"
            /\ job'.pc = "invoke"
       /\ (job'.i = job.i /\ job.pc \in {"invoke", "db"}) =>
            /\ net'[JobSlot] # "sending"
            /\ outbox'[JobSlot] \in {outbox[JobSlot], NoRequest}
       /\ job'.pc = "done" => \A s \in Slots : xfer'[s].by # "cleanup"
       /\ job.pc # "idle" => job'.expiredFiles = job.expiredFiles
       /\ job'.successCount + job'.failureCount = Counted'
       /\ job'.successCount \in {job.successCount, job.successCount + 1}
       /\ job'.failureCount \in {job.failureCount, job.failureCount + 1}
       /\ job'.pc = "done" => job'.i = Len(job'.expiredFiles)]_vars

\* two expired rows: the deletion of the first failed in the store, the
\* second was deleted, and the run reports one of each
C27_Witness ==
    /\ job.pc = "done"
    /\ Len(job.expiredFiles) = 2
    /\ job.successCount = 1
    /\ job.failureCount = 1
    /\ Len(rows) = 1
    /\ rows[1].id = 1
    /\ ObjectExists(KeyA)
    /\ ~ObjectExists(KeyB)

\* the deletion of the row of the first file failed, after its object was
\* deleted; the second is in progress
C27_WitnessRowKept ==
    /\ job.pc = "invoke"
    /\ job.i = 2
    /\ job.failureCount = 1
    /\ Len(rows) = 2
    /\ ~ObjectExists(KeyA)


\* ------------------------------------------------------------------------
\* C28  download_count
\* ------------------------------------------------------------------------

\* the page has saved the file, or opened its URL, and its handler is through
Downloaded(page) == page.hpc = "idle" /\ page.clicked.kind # "none"

\* C28  When each of two recipients of a file has completed a download of it
\* the stored download_count is at least two higher than it was (it was 0).
C28_TwoDownloadsCountTwo ==
    (away # NoRow /\ Downloaded(ThisPage) /\ Downloaded(away))
        => rows[1].download_count >= 2

\* the same state, without the claim: both have downloaded the file, both
\* pages show a count of 1, and so does the row
C28_WitnessLostUpdate ==
    /\ away # NoRow
    /\ Downloaded(ThisPage)
    /\ Downloaded(away)
    /\ file.download_count = 1
    /\ away.file.download_count = 1
    /\ rows[1].download_count = 1


\* ------------------------------------------------------------------------
\* C29  the password of a link
\* ------------------------------------------------------------------------

\* the files the page shows
Shown == IF pageFiles # <<>> THEN pageFiles ELSE IF file # NoRow THEN <<file>> ELSE <<>>

Protected == \E n \in DOMAIN Shown : Shown[n].password_hash # <<>>

\* the password encodes to the hash: btoa gives it
Encodes(pw, hash) == ~BtoaThrows(pw) /\ Btoa(pw) = hash

PasswordFits ==
    \A n \in DOMAIN Shown :
       Shown[n].password_hash # <<>> => Encodes(password, Shown[n].password_hash)

\* a step of the page that is a click on its download button
ClickStep ==
    /\ hpc = "idle"
    /\ ~notFound
    /\ Shown # <<>>
    /\ password' = password
    /\ earlier' = earlier
    /\ <<hpc, toast, passwordError, unhandled, downloading, issued>>'
          # <<hpc, toast, passwordError, unhandled, downloading, issued>>

Refused ==
    /\ hpc' = "idle"
    /\ outbox' = outbox
    /\ net' = net
    /\ issued' = issued
    /\ downloading' = FALSE
    /\ downloadProgress' = downloadProgress

\* C29  A click on the download button of a protected file or batch, with a
\* password that does not encode to the hash of every protected file, issues
\* no request, sets passwordError and leaves downloading false and the
\* progress as it was.
C29_WrongPasswordRefusedWithError ==
    [][(ClickStep /\ Protected /\ ~PasswordFits) => (Refused /\ passwordError')]_vars

\* C29, the part that holds: while the page is idle with a password that does
\* not encode to the hash of every protected file no request is issued, and a
\* click with such a password that btoa can encode sets passwordError and
\* leaves downloading false and the progress as it was.
C29_NoRequestUnlessPasswordFits ==
    [][/\ (hpc = "idle" /\ Protected /\ ~PasswordFits) =>
             (outbox' = outbox /\ issued' = issued /\ hpc' = "idle" /\ ~downloading')
       /\ (ClickStep /\ Protected /\ ~PasswordFits /\ ~BtoaThrows(password)) =>
             (Refused /\ passwordError')]_vars

\* the click with the euro sign typed in: the handler threw, no error is shown
C29_WitnessThrew ==
    /\ unhandled = "InvalidCharacterError"
    /\ Protected
    /\ password = <<8364>>
    /\ ~passwordError
    /\ toast = ""

\* the click with another password than the uploader's
C29_WitnessWrong ==
    /\ Protected
    /\ password = <<113>>
    /\ passwordError
    /\ toast = "Incorrect password"
    /\ issued = <<>>

\* the batch with two protected files is downloaded with the right password
C29_WitnessRight ==
    /\ Len(pageFiles) = 2
    /\ \A n \in DOMAIN pageFiles : pageFiles[n].password_hash # <<>>
    /\ hpc = "batchUpdate"
    /\ Len(zip) = 2

\* ------------------------------------------------------------------------
\* C30  expired files
\* ------------------------------------------------------------------------

\* C30  No request is sent for the storage key of a file the page shows
\* once its expires_at has passed.
C30_NoRequestForExpiredFile ==
    [][\A s \in Slots :
          (net'[s] = "sending" /\ net[s] # "sending") =>
             \A n \in DOMAIN Shown :
                Shown[n].storage_path = outbox'[s].filePath => ~Expired(Shown[n], now)]_vars

\* C30, the part that holds: loadFile and loadBatch show no file whose
\* expires_at has passed when they run.
C30_NoExpiredFileShownAtLoad ==
    [][/\ file' # file => ~Expired(file', now)
       /\ pageFiles' # pageFiles =>
             \A n \in DOMAIN pageFiles' : ~Expired(pageFiles'[n], now)]_vars

\* the page was loaded before the expiry of the file and the file was
\* downloaded after it
C30_WitnessStalePage ==
    /\ file # NoRow
    /\ Expired(file, now)
    /\ clicked.kind = "blob"
    /\ clicked.blob.bytes = <<7>>

\* the batch was loaded after the expiry of its first file: the archive has
\* the second only
C30_WitnessBatchWithoutExpired ==
    /\ Len(pageFiles) = 1
    /\ pageFiles[1].id = 2
    /\ hpc = "batchUpdate"
    /\ Len(zip) = 1
    /\ zip[1].name = "b.txt"

====
